---- MODULE Spec2Model ----
(***************************************************************************)
(* A model of the download transport of the Jira ticket extractor:         *)
(*   - the streaming protocol between the content script's                 *)
(*     downloadFileViaBackground (the Requester) and the service worker's  *)
(*     onConnect stream handler (the Fetcher), over a runtime port;        *)
(*   - the strategy cascade downloadFile;                                  *)
(*   - the attachment loops of extractTicket and extractTicketViaAPI;      *)
(*   - the one-shot request downloadFileAsBlob;                            *)
(*   - the checklist request to an iframe, requestChecklistsFromFrame.     *)
(*                                                                         *)
(* Bytes are not enumerated.  A byte of a response body is identified by   *)
(* the body it belongs to and its offset in it, and a byte sequence is     *)
(* kept as the sequence of its maximal runs [src, lo, hi) of consecutive   *)
(* offsets.  Two byte sequences are equal iff their run sequences are, so  *)
(* loss, duplication and reordering of bytes all show.                     *)
(***************************************************************************)
EXTENDS Integers, Sequences, FiniteSets, TLC

\* background.js:2  const MAX_CHUNK_SIZE = 64 * 1024
MAX_CHUNK_SIZE == 65536

\* The streaming sessions (calls of downloadFileViaBackground, each with its port).
Sessions == {1}

\* The longest response body, in units of MAX_CHUNK_SIZE (plus 37 bytes).
MaxBodyUnits == 2

\* Lengths of the response bodies served to the Fetcher.
BodyLens == {0, MAX_CHUNK_SIZE, MaxBodyUnits * MAX_CHUNK_SIZE + 37}

\* Sizes of the buffers the response stream reader hands out (the last buffer
\* of a body is cut to what is left of the body).
ReadSizes == {40000, MAX_CHUNK_SIZE, MAX_CHUNK_SIZE + 1, 2 * MAX_CHUNK_SIZE + 37}

\* content-type headers of a response; "" stands for a missing header.
ContentTypes == {"", "application/pdf"}

DefaultContentType == "application/octet-stream"

VARIABLES
    req,        \* Requester: the closure of each downloadFileViaBackground call
    port,       \* the runtime port of each session: messages and events in flight
    fet,        \* Fetcher: the closure of each onMessage handler run
    posted,     \* every message the Fetcher posted on each port, in order
    foreignSeen,\* sessions whose Requester listener was handed a foreign message
    cas,        \* one run of the strategy cascade downloadFile
    job,        \* one extraction job: the attachment loop of the coordinator
    shot,       \* one one-shot request downloadFileAsBlob, both ends
    chk         \* one call of requestChecklistsFromFrame and its iframe

streamVars == <<req, port, fet, posted, foreignSeen>>

vars == <<req, port, fet, posted, foreignSeen, cas, job, shot, chk>>

Min(a, b) == IF a < b THEN a ELSE b

----------------------------------------------------------------------------
(* Byte sequences *)

ByteLength(c) == c.hi - c.lo

\* Appending the bytes of run c to a byte sequence.
AppendRun(bytes, c) ==
    IF c.hi = c.lo THEN bytes
    ELSE IF bytes # <<>>
            /\ bytes[Len(bytes)].src = c.src
            /\ bytes[Len(bytes)].hi = c.lo
         THEN [bytes EXCEPT ![Len(bytes)].hi = c.hi]
         ELSE Append(bytes, c)

\* The body of length L served for session s.
BodyBytes(s, L) == AppendRun(<<>>, [src |-> s, lo |-> 0, hi |-> L])

RECURSIVE SizeOf(_)
SizeOf(bytes) ==
    IF bytes = <<>> THEN 0
    ELSE ByteLength(bytes[1]) + SizeOf(Tail(bytes))

----------------------------------------------------------------------------
(* Requester: downloadFileViaBackground *)

NullResult == [kind |-> "null", bytes |-> <<>>, type |-> ""]

PendingResult == [kind |-> "pending", bytes |-> <<>>, type |-> ""]

BlobResult(bytes, type) == [kind |-> "blob", bytes |-> bytes, type |-> type]

ReqIdle ==
    [state |-> "none", requestId |-> 0, chunks |-> <<>>, totalLength |-> 0,
     contentType |-> DefaultContentType, settled |-> FALSE, timer |-> "none",
     closed |-> FALSE, result |-> PendingResult]

\* extractor.js:1563  the request id of session s (time stamp and random
\* suffix): distinct for distinct calls.
NewRequestId(s) == s

\* finalize(result), with cleanup(): the port is disconnected at the first
\* settlement and the promise is resolved once.
finalizeNothing(r, result) == r

finalizeKeepsPort(r, result) ==
    IF r.settled THEN r
    ELSE [r EXCEPT !.settled = TRUE, !.result = result]

finalize(r, result) ==
    IF r.settled THEN r
    ELSE [r EXCEPT !.settled = TRUE, !.closed = TRUE, !.result = result]

\* extractor.js:1586-1589  the callback of setTimeout(..., 120000)
OnTimeoutKeepsWaiting(r) == [r EXCEPT !.timer = "fired"]

OnTimeout(r) == finalize([r EXCEPT !.timer = "fired"], NullResult)

\* extractor.js:1637-1640  the port.onDisconnect listener
OnDisconnectIgnored(r) == r

OnDisconnect(r) ==
    finalize([r EXCEPT !.timer = IF @ = "armed" THEN "cleared" ELSE @], NullResult)

\* The listener's filter on the request id.
IsForeignNever(m, r) == FALSE

IsForeign(m, r) == m.requestId # r.requestId

\* combined.set(chunk, offset) for every buffered chunk, in buffer order.
RECURSIVE Combined(_)
Combined(chunks) ==
    IF chunks = <<>> THEN <<>>
    ELSE AppendRun(Combined(SubSeq(chunks, 1, Len(chunks) - 1)), chunks[Len(chunks)])

\* chunks.push(view)
PushChunkFirst(chunks, c) == <<c>> \o chunks

PushChunk(chunks, c) == Append(chunks, c)

\* The port.onMessage listener of the Requester applied to message m.
OnMessageKeepsPartial(r, m) ==
    IF IsForeign(m, r) THEN r
    ELSE IF m.type = "chunk" /\ "chunk" \in DOMAIN m THEN
        IF ByteLength(m.chunk) = 0 THEN r
        ELSE [r EXCEPT !.chunks = PushChunk(@, m.chunk),
                       !.totalLength = @ + ByteLength(m.chunk)]
    ELSE IF m.type \in {"complete", "error"} THEN
        LET r1 == [r EXCEPT !.timer = IF @ = "armed" THEN "cleared" ELSE @]
        IN  IF r1.totalLength = 0 THEN finalize(r1, NullResult)
            ELSE finalize(r1, BlobResult(Combined(r1.chunks), r1.contentType))
    ELSE r

OnMessage(r, m) ==
    IF IsForeign(m, r) THEN r
    ELSE IF m.type = "chunk" /\ "chunk" \in DOMAIN m THEN
        IF ByteLength(m.chunk) = 0 THEN r
        ELSE [r EXCEPT !.chunks = PushChunk(@, m.chunk),
                       !.totalLength = @ + ByteLength(m.chunk)]
    ELSE IF m.type = "complete" THEN
        LET r1 == [r EXCEPT !.timer = IF @ = "armed" THEN "cleared" ELSE @,
                            !.contentType = IF m.contentType # "" THEN m.contentType ELSE @]
        IN  IF r1.totalLength = 0 THEN finalize(r1, NullResult)
            ELSE LET blob == Combined(r1.chunks)
                 IN  finalize(r1, IF SizeOf(blob) > 0
                                  THEN BlobResult(blob, r1.contentType)
                                  ELSE NullResult)
    ELSE IF m.type = "error" THEN
        finalize([r EXCEPT !.timer = IF @ = "armed" THEN "cleared" ELSE @], NullResult)
    ELSE r

----------------------------------------------------------------------------
(* The port between the two contexts *)

\* extractor.js:1564  chrome.runtime.connect(...) returns a new port at every
\* call: the port of session s
PortOfShared(s) == 1

PortOf(s) == s

\* toFetcher, toReq: messages in flight, in order.  discToFet: the disconnect
\* event caused by the Requester's port.disconnect(), on its way to the
\* Fetcher.  discToReq: the disconnect event caused by the loss of the
\* Fetcher's end (the service worker was stopped), on its way to the Requester.
\* name: the name the port was connected with ("" before it is connected).
PortIdle ==
    [name |-> "", toFetcher |-> <<>>, toReq |-> <<>>, discToFet |-> "none",
     discToReq |-> "none"]

\* extractor.js:1564  chrome.runtime.connect({ name: 'downloadFileStream' })
StreamPortName == "downloadFileStream"

\* extractor.js:1642  the initiation message
Initiation(url, requestId) ==
    [action |-> "downloadFileStream", url |-> url, requestId |-> requestId]

ChunkMsg(requestId, c) ==
    [type |-> "chunk", requestId |-> requestId, chunk |-> c, done |-> FALSE]

CompleteMsg(requestId, contentType) ==
    [type |-> "complete", requestId |-> requestId, contentType |-> contentType]

ErrorMsg(requestId, error) ==
    [type |-> "error", requestId |-> requestId, error |-> error]

----------------------------------------------------------------------------
(* Fetcher: the port.onMessage listener of chrome.runtime.onConnect *)

\* requests: the options of the fetches issued, in order.  responses: the
\* responses they settled with.
FetIdle ==
    [pc |-> "idle", requestId |-> 0, disconnected |-> FALSE, aborted |-> FALSE,
     listener |-> FALSE, requests |-> <<>>, responses |-> <<>>, body |-> 0,
     pos |-> 0, contentType |-> ""]

\* background.js:112-117  the options of the first request
WithCredentials ==
    [credentials |-> "include", mode |-> "cors", redirect |-> "follow"]

\* background.js:122-126  the options of the second request: no credentials
\* member
WithoutCredentials ==
    [credentials |-> "omitted", mode |-> "cors", redirect |-> "follow"]

\* What a fetch() of the Fetcher settles with when it is not aborted.
Responses ==
    {[ok |-> TRUE,  status |-> 200, type |-> "cors",   hasBody |-> TRUE],
     [ok |-> TRUE,  status |-> 204, type |-> "cors",   hasBody |-> FALSE],
     [ok |-> FALSE, status |-> 403, type |-> "cors",   hasBody |-> TRUE],
     [ok |-> FALSE, status |-> 404, type |-> "cors",   hasBody |-> TRUE],
     [ok |-> FALSE, status |-> 0,   type |-> "opaque", hasBody |-> FALSE]}

\* background.js:90  if (port.name !== 'downloadFileStream') return: no
\* listener is added to a port of another name
IsStreamPort(p) == p.name = "downloadFileStream"

\* background.js:93-95  the filter of the message listener
IgnoredNever(message) == FALSE

Ignored(message) == message.action # "downloadFileStream" \/ message.url = ""

\* background.js:97  const { url, requestId } = message
RequestIdNone(message) == 0

RequestIdOf(message) == message.requestId

\* background.js:120  the condition of the retry
RetryOnAnyFailure(r) == ~r.ok

ShouldRetry(r) == ~r.ok /\ (r.status = 403 \/ r.type = "opaque")

\* disconnectHandler
disconnectHandlerNoAbort(f) == [f EXCEPT !.disconnected = TRUE]

disconnectHandler(f) == [f EXCEPT !.disconnected = TRUE, !.aborted = TRUE]

\* background.js:116, 125  signal: controller.signal: the request, and the
\* body stream of its response, are aborted when the controller is
SignalIgnored(f) == FALSE

SignalAborted(f) == f.aborted

\* background.js:147  baseBuffer.byteLength > MAX_CHUNK_SIZE
NeedsSplitLate(len) == len > 2 * MAX_CHUNK_SIZE

NeedsSplit(len) == len > MAX_CHUNK_SIZE

\* background.js:150  baseBuffer.slice(offset, offset + MAX_CHUNK_SIZE), cut at
\* the end of the buffer [lo, hi)
Slice(s, lo, hi, offset) ==
    [src |-> s, lo |-> lo + offset, hi |-> Min(lo + offset + MAX_CHUNK_SIZE, hi)]

\* background.js:148-152  the for loop over the offsets of a large buffer.  It
\* runs without suspension, so the flag tested by "if (disconnected) break"
\* keeps the value it has when the loop starts.
RECURSIVE Slices(_, _, _, _, _)
Slices(s, lo, hi, offset, disconnected) ==
    IF ~(offset < hi - lo) \/ disconnected THEN <<>>
    ELSE <<Slice(s, lo, hi, offset)>>
         \o Slices(s, lo, hi, offset + MAX_CHUNK_SIZE, disconnected)

\* background.js:145-155  the chunks posted for one read buffer [lo, hi)
ChunksOfBuffer(s, lo, hi, disconnected) ==
    IF NeedsSplit(hi - lo) THEN Slices(s, lo, hi, 0, disconnected)
    ELSE <<[src |-> s, lo |-> lo, hi |-> hi]>>

RECURSIVE ChunkMsgs(_, _)
ChunkMsgs(requestId, cs) ==
    IF cs = <<>> THEN <<>>
    ELSE <<ChunkMsg(requestId, cs[1])>> \o ChunkMsgs(requestId, Tail(cs))

\* background.js:163  error.message || 'Download failed'
ErrorText(message) == IF message # "" THEN message ELSE "Download failed"

\* catch (error) { if (!disconnected) post error } finally { removeListener }
ThrownSilent(f, error) ==
    [f |-> [f EXCEPT !.pc = "done", !.listener = FALSE], msgs |-> <<>>]

ThrownAlways(f, error) ==
    [f |-> [f EXCEPT !.pc = "done", !.listener = FALSE],
     msgs |-> <<ErrorMsg(f.requestId, ErrorText(error))>>]

Thrown(f, error) ==
    [f |-> [f EXCEPT !.pc = "done", !.listener = FALSE],
     msgs |-> IF ~f.disconnected
              THEN <<ErrorMsg(f.requestId, ErrorText(error))>> ELSE <<>>]

\* background.js:158-160, 165-167  after the read loop
AfterLoop(f) ==
    [f |-> [f EXCEPT !.pc = "done", !.listener = FALSE],
     msgs |-> IF ~f.disconnected
              THEN <<CompleteMsg(f.requestId, f.contentType)>> ELSE <<>>]

\* background.js:140  while (!disconnected): await reader.read() or leave
LoopHead(f, msgs) ==
    IF ~f.disconnected THEN [f |-> [f EXCEPT !.pc = "reading"], msgs |-> msgs]
    ELSE [f |-> AfterLoop(f).f, msgs |-> msgs \o AfterLoop(f).msgs]

\* background.js:112-138  the continuation of an awaited fetch() that settled
\* with response r (content-type header ct, body of length L)
AfterFetch(f0, r, ct, L) ==
    LET f == [f0 EXCEPT !.responses = Append(@, r)]
    IN  IF f.pc = "fetch1" /\ ShouldRetry(r)
        THEN [f |-> [f EXCEPT !.pc = "fetch2",
                              !.requests = Append(@, WithoutCredentials)],
              msgs |-> <<>>]
        ELSE IF ~r.ok THEN Thrown(f, "HTTP")
        ELSE IF ~r.hasBody THEN Thrown(f, "Readable stream not available for download")
        ELSE LoopHead([f EXCEPT !.contentType = IF ct # "" THEN ct
                                                ELSE DefaultContentType,
                                !.body = L, !.pos = 0], <<>>)

\* background.js:141-156  the continuation of an awaited reader.read() that
\* settled with a buffer of n bytes (n = 0: done)
AfterReadLeavesEarly(s, f, n) ==
    IF n = 0 THEN AfterLoop(f)
    ELSE [f |-> AfterLoop([f EXCEPT !.pos = @ + n]).f,
          msgs |-> ChunkMsgs(f.requestId,
                             ChunksOfBuffer(s, f.pos, f.pos + n, f.disconnected))
                   \o AfterLoop(f).msgs]

AfterRead(s, f, n) ==
    IF n = 0 THEN AfterLoop(f)
    ELSE LoopHead([f EXCEPT !.pos = @ + n],
                  ChunkMsgs(f.requestId,
                            ChunksOfBuffer(s, f.pos, f.pos + n, f.disconnected)))

----------------------------------------------------------------------------
(* Actions of the streaming protocol *)

\* The Fetcher posts msgs on port s.  Messages posted after the Requester has
\* disconnected its end are lost.
Post(s, f, msgs, p) ==
    /\ fet' = [fet EXCEPT ![s] = f]
    /\ posted' = [posted EXCEPT ![PortOf(s)] = @ \o msgs]
    /\ port' = [port EXCEPT ![PortOf(s)] =
                   IF req[s].closed THEN p ELSE [p EXCEPT !.toReq = @ \o msgs]]

\* The Requester's record r of session s becomes r2; when that settled the
\* session, cleanup() disconnected the port: what was on its way to the
\* Requester is dropped and the other end, if alive, is sent the disconnect
\* event.
Settle(s, r2, p) ==
    /\ req' = [req EXCEPT ![s] = r2]
    /\ port' = [port EXCEPT ![PortOf(s)] =
                   IF r2.closed /\ ~req[s].closed
                   THEN [p EXCEPT !.toReq = <<>>,
                                  !.discToFet = IF p.discToReq = "none"
                                                THEN "pending" ELSE @]
                   ELSE p]

\* The url argument of downloadFileViaBackground(url, filename): a url, or
\* the empty string
CallUrls == {"url", ""}

\* extractor.js:1389, 1412, 1427, 1443  return await downloadFileViaBackground:
\* a call is made when the promises of the calls before it are resolved
PreviousSettled(s) == \A t \in DOMAIN req : t < s => req[t].settled

\* Bodies and read buffers served to the Fetcher.  When several sessions are
\* run it is their interplay on the ports that is looked at, and one body
\* that is cut in two slices is enough.
ServedBodyLens ==
    IF Cardinality(DOMAIN fet) > 1 THEN {0, MAX_CHUNK_SIZE + 1} ELSE BodyLens

ServedReadSizes ==
    IF Cardinality(DOMAIN fet) > 1 THEN {MAX_CHUNK_SIZE + 1} ELSE ReadSizes

ServedContentTypes ==
    IF Cardinality(DOMAIN fet) > 1 THEN {""} ELSE ContentTypes

\* extractor.js:1560-1647  downloadFileViaBackground(url, filename) is called.
\* Calls are made one after the other: the promise of the previous call has
\* been resolved.
ReqStart(s) ==
    /\ req[s].state = "none"
    /\ PreviousSettled(s)
    /\ req' = [req EXCEPT ![s] =
                  [ReqIdle EXCEPT !.state = "open", !.requestId = NewRequestId(s),
                                  !.timer = "armed"]]
    /\ port[PortOf(s)].toFetcher = <<>>
    /\ \E url \in CallUrls :
          port' = [port EXCEPT ![PortOf(s)].name = StreamPortName,
                               ![PortOf(s)].toFetcher =
                                   Append(@, Initiation(url, NewRequestId(s)))]
    /\ UNCHANGED <<fet, posted, foreignSeen, cas, job, shot, chk>>

\* What reaches the service worker's onConnect listener from elsewhere than
\* downloadFileViaBackground: a port connected with another name, or a
\* message on a stream port with another action.
StrayConnections ==
    {[name |-> "popup", message |-> Initiation("url", 0)],
     [name |-> StreamPortName,
      message |-> [action |-> "downloadFile", url |-> "url", requestId |-> 0]]}

\* background.js:89-95  such a port is connected and its message posted
StrayConnect(s) ==
    /\ req[s].state = "none"
    /\ port[PortOf(s)] = PortIdle
    /\ fet[s].pc = "idle"
    /\ \E c \in StrayConnections :
          port' = [port EXCEPT ![PortOf(s)].name = c.name,
                               ![PortOf(s)].toFetcher = <<c.message>>]
    /\ UNCHANGED <<req, fet, posted, foreignSeen, cas, job, shot, chk>>

\* extractor.js:1591-1635  a message of the Fetcher reaches the listener
ReqOnMessage(s) ==
    /\ req[s].state = "open"
    /\ ~req[s].closed
    /\ port[PortOf(s)].toReq # <<>>
    /\ Settle(s, OnMessage(req[s], Head(port[PortOf(s)].toReq)),
              [port[PortOf(s)] EXCEPT !.toReq = Tail(@)])
    /\ UNCHANGED <<fet, posted, foreignSeen, cas, job, shot, chk>>

\* Messages that do not belong to session s.
ForeignMessages(s) ==
    {ChunkMsg(0, [src |-> 0, lo |-> 0, hi |-> 1]),
     CompleteMsg(0, "text/html"),
     ErrorMsg(0, "other")}

\* extractor.js:1591-1635  the listener is handed a message of another request
ReqOnForeign(s) ==
    /\ req[s].state = "open"
    /\ ~req[s].closed
    /\ \E m \in ForeignMessages(s) : Settle(s, OnMessage(req[s], m), port[PortOf(s)])
    /\ foreignSeen' = foreignSeen \cup {s}
    /\ UNCHANGED <<fet, posted, cas, job, shot, chk>>

\* extractor.js:1586-1589  the 120 s timer fires
ReqTimeout(s) ==
    /\ req[s].timer = "armed"
    /\ Settle(s, OnTimeout(req[s]), port[PortOf(s)])
    /\ UNCHANGED <<fet, posted, foreignSeen, cas, job, shot, chk>>

\* extractor.js:1637-1640  port.onDisconnect: the other end is gone
ReqOnDisconnect(s) ==
    /\ req[s].state = "open"
    /\ ~req[s].closed
    /\ port[PortOf(s)].discToReq = "pending"
    /\ port[PortOf(s)].toReq = <<>>
    /\ Settle(s, OnDisconnect(req[s]), [port[PortOf(s)] EXCEPT !.discToReq = "delivered"])
    /\ UNCHANGED <<fet, posted, foreignSeen, cas, job, shot, chk>>

\* background.js:92-117  the initiation message reaches the Fetcher
FetOnMessage(s) ==
    /\ fet[s].pc = "idle"
    /\ port[PortOf(s)].toFetcher # <<>>
    /\ LET m == Head(port[PortOf(s)].toFetcher)
       IN  fet' = [fet EXCEPT ![s] =
                      IF ~IsStreamPort(port[PortOf(s)]) \/ Ignored(m) THEN @
                      ELSE [FetIdle EXCEPT !.pc = "fetch1", !.requestId = RequestIdOf(m),
                                           !.listener = TRUE,
                                           !.requests = <<WithCredentials>>]]
    /\ port' = [port EXCEPT ![PortOf(s)].toFetcher = Tail(@)]
    /\ UNCHANGED <<req, posted, foreignSeen, cas, job, shot, chk>>

\* background.js:112-138  an awaited fetch() settles: rejected when the
\* request was aborted or failed, otherwise with a response
FetFetchSettle(s) ==
    /\ fet[s].pc \in {"fetch1", "fetch2"}
    /\ \/ /\ SignalAborted(fet[s])
          /\ Post(s, Thrown(fet[s], "AbortError").f, Thrown(fet[s], "AbortError").msgs, port[PortOf(s)])
       \/ /\ ~SignalAborted(fet[s])
          /\ Post(s, Thrown(fet[s], "Failed to fetch").f,
                  Thrown(fet[s], "Failed to fetch").msgs, port[PortOf(s)])
       \/ /\ ~SignalAborted(fet[s])
          /\ \E r \in Responses :
                \E ct \in (IF r.ok /\ r.hasBody THEN ServedContentTypes ELSE {""}) :
                   \E L \in (IF r.ok /\ r.hasBody THEN ServedBodyLens ELSE {0}) :
                      Post(s, AfterFetch(fet[s], r, ct, L).f,
                           AfterFetch(fet[s], r, ct, L).msgs, port[PortOf(s)])
    /\ UNCHANGED <<req, foreignSeen, cas, job, shot, chk>>

\* background.js:141-156  an awaited reader.read() settles: rejected when the
\* request was aborted or the connection broke, otherwise with the next
\* buffer of the body or with done
FetReadSettle(s) ==
    /\ fet[s].pc = "reading"
    /\ \/ /\ SignalAborted(fet[s])
          /\ Post(s, Thrown(fet[s], "AbortError").f, Thrown(fet[s], "AbortError").msgs, port[PortOf(s)])
       \/ /\ ~SignalAborted(fet[s])
          /\ fet[s].pos < fet[s].body
          /\ Post(s, Thrown(fet[s], "network error").f,
                  Thrown(fet[s], "network error").msgs, port[PortOf(s)])
       \/ /\ ~SignalAborted(fet[s])
          /\ fet[s].pos = fet[s].body
          /\ Post(s, AfterRead(s, fet[s], 0).f, AfterRead(s, fet[s], 0).msgs, port[PortOf(s)])
       \/ /\ ~SignalAborted(fet[s])
          /\ fet[s].pos < fet[s].body
          /\ \E n \in {Min(k, fet[s].body - fet[s].pos) : k \in ServedReadSizes} :
                Post(s, AfterRead(s, fet[s], n).f, AfterRead(s, fet[s], n).msgs, port[PortOf(s)])
    /\ UNCHANGED <<req, foreignSeen, cas, job, shot, chk>>

\* background.js:101-106  the disconnect event of the Requester's
\* port.disconnect() reaches the Fetcher, after the messages sent before it
FetOnDisconnectAll(s) ==
    /\ port[PortOf(s)].discToFet = "pending"
    /\ port[PortOf(s)].toFetcher = <<>>
    /\ fet[s].pc # "dead"
    /\ port' = [port EXCEPT ![PortOf(s)].discToFet = "delivered"]
    /\ fet' = [t \in DOMAIN fet |->
                  IF fet[t].listener THEN disconnectHandler(fet[t]) ELSE fet[t]]
    /\ UNCHANGED <<req, posted, foreignSeen, cas, job, shot, chk>>

FetOnDisconnect(s) ==
    /\ port[PortOf(s)].discToFet = "pending"
    /\ port[PortOf(s)].toFetcher = <<>>
    /\ fet[s].pc # "dead"
    /\ port' = [port EXCEPT ![PortOf(s)].discToFet = "delivered"]
    /\ fet' = [fet EXCEPT ![s] = IF @.listener THEN disconnectHandler(@) ELSE @]
    /\ UNCHANGED <<req, posted, foreignSeen, cas, job, shot, chk>>

\* The browser stops the service worker: every handler run of the Fetcher
\* ends where it is, and every port still connected is disconnected.
WorkerStopped ==
    /\ \E s \in DOMAIN fet : fet[s].pc \notin {"idle", "dead"}
    /\ fet' = [s \in DOMAIN fet |->
                  IF fet[s].pc # "idle" \/ port[PortOf(s)].toFetcher # <<>>
                  THEN [fet[s] EXCEPT !.pc = "dead", !.listener = FALSE]
                  ELSE fet[s]]
    /\ port' = [s \in DOMAIN fet |->
                   IF (fet[s].pc \notin {"idle", "dead"} \/ port[PortOf(s)].toFetcher # <<>>)
                      /\ port[PortOf(s)].discToFet = "none"
                   THEN [port[PortOf(s)] EXCEPT !.discToReq = "pending", !.toFetcher = <<>>]
                   ELSE [port[PortOf(s)] EXCEPT !.toFetcher = <<>>]]
    /\ UNCHANGED <<req, posted, foreignSeen, cas, job, shot, chk>>


----------------------------------------------------------------------------
(* Properties of the streaming protocol *)

ChunksPosted(s) ==
    {i \in 1..Len(posted[s]) : posted[s][i].type = "chunk"}

\* C1: for every streaming session the Requester completed successfully, the
\* payload it returns (the buffered chunks concatenated in arrival order) is
\* byte-identical to the response body the Fetcher read, whatever the body
\* length and the sizes of the read buffers.
C1_PayloadIsBody ==
    \A s \in Sessions :
        req[s].result.kind = "blob" =>
            req[s].result.bytes = BodyBytes(s, fet[s].body)

\* A session completed with a body of more than two chunks, some of them
\* slices of a large read buffer and some of them small read buffers.
C1_Witness ==
    \E s \in Sessions :
        /\ req[s].result.kind = "blob"
        /\ Len(req[s].chunks) >= 3
        /\ \E i, j \in 1..Len(req[s].chunks) :
              /\ ByteLength(req[s].chunks[i]) = MAX_CHUNK_SIZE
              /\ ByteLength(req[s].chunks[j]) < MAX_CHUNK_SIZE

\* C2: every chunk message the Fetcher posts carries at most MAX_CHUNK_SIZE
\* bytes, whatever the sizes of the read buffers.
C2_ChunkSizeBounded ==
    \A s \in Sessions :
        \A i \in ChunksPosted(s) :
            ByteLength(posted[s][i].chunk) <= MAX_CHUNK_SIZE

\* A read buffer of MAX_CHUNK_SIZE + 1 bytes was posted as a full slice
\* followed by a slice of one byte.
C2_Witness ==
    \E s \in Sessions :
        \E i \in ChunksPosted(s) :
            /\ i + 1 \in ChunksPosted(s)
            /\ ByteLength(posted[s][i].chunk) = MAX_CHUNK_SIZE
            /\ ByteLength(posted[s][i + 1].chunk) = 1

\* C3: a message whose requestId is not the one of the session being
\* assembled is ignored by the Requester's listener: the chunk buffer, the
\* byte count, the content type and the settlement of the session (and with
\* it the port) are left as they were.
C3_ForeignIgnored ==
    [][\A s \in Sessions : ReqOnForeign(s) => UNCHANGED <<req, port>>]_vars

\* The listener of an open session that has buffered a chunk was handed a
\* foreign message.
C3_Witness ==
    \E s \in foreignSeen :
        /\ req[s].state = "open"
        /\ ~req[s].settled
        /\ Len(req[s].chunks) >= 1

\* The step posts a chunk or a complete message on port s.
PostsChunkOrComplete(s) ==
    \E i \in (Len(posted[s]) + 1)..Len(posted'[s]) :
        posted'[s][i].type \in {"chunk", "complete"}

\* C4 as stated: once the Requester has disconnected the port after receiving
\* the first chunk, the Fetcher posts no further chunk and no complete message.
C4_NoPostAfterRequesterDisconnect ==
    [][\A s \in Sessions :
          (req[s].closed /\ Len(req[s].chunks) >= 1) => ~PostsChunkOrComplete(s)]_vars

\* C4 as amended: once the Requester has disconnected the port after
\* receiving the first chunk and the disconnect event has reached the Fetcher
\* (disconnectHandler has run), the Fetcher posts no further chunk and no
\* complete message.
C4_NoPostAfterDisconnectObserved ==
    [][\A s \in Sessions :
          (req[s].closed /\ Len(req[s].chunks) >= 1 /\ fet[s].disconnected)
              => ~PostsChunkOrComplete(s)]_vars

\* The Requester disconnected after a first chunk, the Fetcher has observed it
\* in the middle of the body and its pending read has been rejected.
C4_Witness ==
    \E s \in Sessions :
        /\ req[s].closed
        /\ Len(req[s].chunks) >= 1
        /\ fet[s].disconnected
        /\ fet[s].pc = "done"
        /\ fet[s].pos < fet[s].body

\* C12: the timer armed at the start of a session stays armed, whatever
\* chunks arrive, until the session settles; when it fires on a session that
\* has received neither complete nor error nor a disconnect, the session
\* settles as failed (result null) and the Requester disconnects the port.
C12_TimeoutFailsSession ==
    [][\A s \in Sessions :
          /\ (req'[s].state = "open" /\ ~req'[s].settled) => req'[s].timer = "armed"
          /\ (req[s].timer = "armed" /\ req'[s].timer = "fired") =>
                /\ ~req[s].settled
                /\ req'[s].settled
                /\ req'[s].result = NullResult
                /\ req'[s].closed
                /\ port'[s].toReq = <<>>
                /\ port'[s].discToReq = "none" => port'[s].discToFet = "pending"]_vars

\* The timer fired on a session that had buffered two chunks and whose
\* Fetcher was still reading the body.
C12_Witness ==
    \E s \in Sessions :
        /\ req[s].timer = "fired"
        /\ req[s].result = NullResult
        /\ Len(req[s].chunks) >= 2
        /\ fet[s].pc = "reading"

\* C17: when the disconnect of the other end reaches the Requester of a
\* session that has received neither complete nor error, the session settles
\* at once as failed (result null) and the timer is cancelled: it is not
\* left to the timeout.
C17_DisconnectCancels ==
    [][\A s \in Sessions :
          (port[s].discToReq = "pending" /\ port'[s].discToReq = "delivered") =>
              /\ ~req[s].settled
              /\ req'[s].settled
              /\ req'[s].result = NullResult
              /\ req[s].timer = "armed"
              /\ req'[s].timer = "cleared"]_vars

\* The other end went away in the middle of a body, after a chunk had been
\* buffered, and the Requester was told.
C17_Witness ==
    \E s \in Sessions :
        /\ port[s].discToReq = "delivered"
        /\ Len(req[s].chunks) >= 1
        /\ req[s].result = NullResult
        /\ req[s].timer = "cleared"
        /\ fet[s].pc = "dead"

\* A request or a body read of the Fetcher of session s is in flight.
InFlight(s) == fet[s].pc \in {"fetch1", "fetch2", "reading"}

\* C18: when the Requester's disconnect reaches the Fetcher while its request
\* (the first or the retried one) or a body read is in flight, the abort
\* signal is triggered; once it is, the Fetcher makes no successful read (the
\* read position does not move), issues no further request and posts
\* nothing, and its next step ends the handler run.
C18_DisconnectAborts ==
    [][\A s \in Sessions :
          /\ (port[s].discToFet = "pending" /\ port'[s].discToFet = "delivered"
                 /\ InFlight(s)) => fet'[s].aborted
          /\ fet[s].aborted =>
                /\ fet'[s].pos = fet[s].pos
                /\ fet'[s].requests = fet[s].requests
                /\ posted'[s] = posted[s]
                /\ fet'[s] # fet[s] => fet'[s].pc \in {"done", "dead"}]_vars

\* The abort signal was triggered while the retried request was in flight.
C18_Witness ==
    \E s \in Sessions :
        /\ req[s].closed
        /\ fet[s].aborted
        /\ fet[s].pc = "fetch2"
        /\ Len(fet[s].requests) = 2

\* The request ids of the messages port p carries or has carried to the
\* Requester, and of those on their way to the Fetcher.
RequestIdsOn(p) ==
    {port[p].toFetcher[i].requestId : i \in 1..Len(port[p].toFetcher)}
    \cup {port[p].toReq[i].requestId : i \in 1..Len(port[p].toReq)}
    \cup {posted[p][i].requestId : i \in 1..Len(posted[p])}

\* C19: every streaming download has a port of its own: no port carries the
\* messages of two sessions (of two request ids), and the Requester has at
\* most one session open at any time.
C19_OnePortPerSession ==
    /\ \A p \in DOMAIN port : Cardinality(RequestIdsOn(p)) <= 1
    /\ \A s, t \in DOMAIN req :
          (s # t /\ req[s].state = "open" /\ req[t].state = "open")
              => (req[s].settled \/ req[t].settled)
    /\ \A s, t \in DOMAIN req :
          (s # t /\ req[s].state = "open" /\ req[t].state = "open")
              => req[s].requestId # req[t].requestId

\* The second session has buffered a chunk on its port while the Fetcher of
\* the first, which timed out, is still reading: two ports are in use.
C19_Witness ==
    /\ DOMAIN req = {1, 2}
    /\ req[1].timer = "fired"
    /\ fet[1].pc = "reading"
    /\ req[2].state = "open"
    /\ ~req[2].settled
    /\ Len(req[2].chunks) >= 1
    /\ posted[1] # <<>>

CeilDiv(a, b) == (a + b - 1) \div b

\* C13: when the Fetcher has relayed a whole response body of length L (it
\* posted complete), it has posted exactly ceil(L / MAX_CHUNK_SIZE) chunk
\* messages for the session.
C13_ChunkCountIsCeil ==
    \A s \in Sessions :
        (\E i \in 1..Len(posted[s]) : posted[s][i].type = "complete") =>
            Cardinality(ChunksPosted(s)) = CeilDiv(fet[s].body, MAX_CHUNK_SIZE)

\* C24: every message the Fetcher posts is a chunk, a complete or an error
\* message and carries the requestId of the initiation message of its
\* session; a chunk message carries done = false, a complete message a
\* content type and an error message an error string.
C24_MessageShape ==
    \A s \in DOMAIN fet :
        \A i \in 1..Len(posted[PortOf(s)]) :
            LET m == posted[PortOf(s)][i]
            IN  /\ m.type \in {"chunk", "complete", "error"}
                /\ m.requestId = NewRequestId(s)
                /\ m.requestId = req[s].requestId
                /\ m.type = "chunk" =>
                      /\ DOMAIN m = {"type", "requestId", "chunk", "done"}
                      /\ m.done = FALSE
                /\ m.type = "complete" =>
                      /\ DOMAIN m = {"type", "requestId", "contentType"}
                      /\ m.contentType # ""
                /\ m.type = "error" =>
                      /\ DOMAIN m = {"type", "requestId", "error"}
                      /\ m.error # ""

\* A session whose Fetcher posted a chunk and then an error message.
C24_Witness ==
    /\ Len(posted[1]) >= 2
    /\ posted[1][1].type = "chunk"
    /\ posted[1][Len(posted[1])].type = "error"

\* C25: the first request of the Fetcher includes credentials; a second
\* request, without credentials, is made exactly when the first response is
\* not ok and is a 403 or opaque; a session never makes more than two
\* requests.
C25_RetryWithoutCredentials ==
    \A s \in DOMAIN fet :
        LET f == fet[s]
        IN  /\ Len(f.requests) <= 2
            /\ Len(f.requests) >= 1 => f.requests[1].credentials = "include"
            /\ Len(f.requests) = 2 => f.requests[2].credentials = "omitted"
            /\ Len(f.responses) >= 1 =>
                  (Len(f.requests) = 2 <=>
                      (~f.responses[1].ok
                       /\ (f.responses[1].status = 403
                           \/ f.responses[1].type = "opaque")))
            /\ Len(f.responses) = 0 => Len(f.requests) <= 1

\* The first response was opaque, the request was repeated without
\* credentials and the second response was a 403: no third request.
C25_Witness ==
    /\ Len(fet[1].requests) = 2
    /\ Len(fet[1].responses) = 2
    /\ fet[1].responses[1].type = "opaque"
    /\ fet[1].responses[2].status = 403
    /\ fet[1].pc = "done"

\* The last response the Fetcher of session s received.
FinalResponse(s) == fet[s].responses[Len(fet[s].responses)]

\* C26: when the final response of a session that was not cancelled is not
\* ok (the first one when no second request is made, otherwise the second),
\* the Fetcher posts exactly one error message and no chunk or complete
\* message.
C26_NotOkPostsOneError ==
    \A s \in DOMAIN fet :
        (/\ fet[s].pc = "done"
         /\ fet[s].responses # <<>>
         /\ Len(fet[s].responses) = Len(fet[s].requests)
         /\ ~FinalResponse(s).ok
         /\ ~fet[s].disconnected)
        => posted[PortOf(s)] = <<ErrorMsg(NewRequestId(s), "HTTP")>>

\* The only response was a 404 and the error message was posted.
C26_Witness ==
    /\ fet[1].pc = "done"
    /\ Len(fet[1].responses) = 1
    /\ FinalResponse(1).status = 404
    /\ ~fet[1].disconnected
    /\ Len(posted[1]) = 1
    /\ posted[1][1].type = "error"

\* The chunks posted on port p, as the run they are of the body.
PostedChunks(p) ==
    [i \in 1..Cardinality(ChunksPosted(p)) |-> posted[p][i].chunk]

Terminals(p) ==
    {i \in 1..Len(posted[p]) : posted[p][i].type \in {"complete", "error"}}

\* The handler run of session s got an ok response with a body and read it
\* to its end.
BodyExhausted(s) ==
    /\ fet[s].responses # <<>>
    /\ Len(fet[s].responses) = Len(fet[s].requests)
    /\ FinalResponse(s).ok
    /\ FinalResponse(s).hasBody
    /\ fet[s].pos = fet[s].body

\* C27: a session has at most one terminal message (complete or error, never
\* both) and no chunk is posted after it; complete is posted only when the
\* body is exhausted, after every chunk of it; a handler run of a session
\* that was not cancelled ends with complete when the body was read to its
\* end and with an error message when the fetch or a read failed.
C27_OneTerminalMessage ==
    \A s \in DOMAIN fet :
        LET p == PortOf(s)
            n == Len(posted[p])
        IN  /\ Cardinality(Terminals(p)) <= 1
            /\ Terminals(p) \subseteq {n}
            /\ fet[s].pc \notin {"done", "dead"} => Terminals(p) = {}
            /\ (n > 0 /\ posted[p][n].type = "complete") =>
                  /\ BodyExhausted(s)
                  /\ Combined(PostedChunks(p)) = BodyBytes(s, fet[s].body)
            /\ (fet[s].pc = "done" /\ ~fet[s].disconnected) =>
                  /\ Terminals(p) = {n}
                  /\ posted[p][n].type = "complete" <=> BodyExhausted(s)

\* A read failed after two chunks were posted: the session ends with an
\* error message.
C27_Witness ==
    /\ fet[1].pc = "done"
    /\ ~fet[1].disconnected
    /\ Len(posted[1]) = 3
    /\ posted[1][2].type = "chunk"
    /\ posted[1][3] = ErrorMsg(NewRequestId(1), "network error")

\* C28: once disconnectHandler has run in a session, its Fetcher posts no
\* message of any kind (no chunk, no complete, no error), also when the
\* aborted fetch or read throws.
C28_SilentAfterDisconnect ==
    [][\A s \in DOMAIN fet :
          fet[s].disconnected => posted'[PortOf(s)] = posted[PortOf(s)]]_vars

\* disconnectHandler ran while the first request was in flight, the aborted
\* fetch threw and the handler run ended without a message.
C28_Witness ==
    /\ fet[1].disconnected
    /\ fet[1].aborted
    /\ fet[1].pc = "done"
    /\ fet[1].responses = <<>>
    /\ posted[1] = <<>>

\* C34: a session of the Requester settles at most once: once it has
\* settled, no later step changes the result it returned or unsettles it;
\* the Requester disconnects the port in the step that settles the session,
\* so that nothing is delivered to it afterwards.
C34_SettlesOnce ==
    [][\A s \in DOMAIN req :
          /\ req[s].settled =>
                /\ req'[s].settled
                /\ req'[s].result = req[s].result
                /\ req'[s].chunks = req[s].chunks
          /\ (~req[s].settled /\ req'[s].settled) =>
                /\ req'[s].result.kind \in {"blob", "null"}
                /\ req'[s].closed
                /\ port'[PortOf(s)].toReq = <<>>
                /\ port'[PortOf(s)].discToFet # "none"
                      \/ port'[PortOf(s)].discToReq # "none"
          /\ ~req'[s].settled =>
                /\ req'[s].result = PendingResult
                /\ ~req'[s].closed]_vars

\* The session was settled by the timer with a chunk buffered, and the
\* Fetcher, which had not yet observed the disconnect, posted the rest of
\* the body and the complete message afterwards.
C34_Witness ==
    /\ req[1].settled
    /\ req[1].timer = "fired"
    /\ req[1].result = NullResult
    /\ Len(req[1].chunks) >= 1
    /\ Len(posted[1]) > Len(req[1].chunks) + 1
    /\ posted[1][Len(posted[1])].type = "complete"

\* A complete message with the request id of session s was posted on its
\* port.
CompletePosted(s) ==
    \E i \in 1..Len(posted[PortOf(s)]) :
        /\ posted[PortOf(s)][i].type = "complete"
        /\ posted[PortOf(s)][i].requestId = req[s].requestId

\* C35: downloadFileViaBackground returns a payload only if a complete
\* message with its own request id reached it while the session was open; a
\* session ended by an error message, a disconnect or the timeout returns
\* null even with chunks in the buffer; the payload returned is never a part
\* of the body.
C35_PayloadOnlyOnComplete ==
    \A s \in DOMAIN req :
        /\ req[s].result.kind = "blob" =>
              /\ CompletePosted(s)
              /\ req[s].timer = "cleared"
              /\ port[PortOf(s)].discToReq # "delivered"
              /\ SizeOf(req[s].result.bytes) = fet[s].body
              /\ req[s].result.bytes = Combined(req[s].chunks)
        /\ (req[s].settled /\ ~CompletePosted(s)) => req[s].result = NullResult
        /\ (req[s].settled /\ req[s].timer = "fired") => req[s].result = NullResult
        /\ port[PortOf(s)].discToReq = "delivered" => req[s].result = NullResult

\* A session that had buffered a chunk was ended by an error message and
\* returned null.
C35_Witness ==
    /\ req[1].settled
    /\ req[1].result = NullResult
    /\ req[1].timer = "cleared"
    /\ Len(req[1].chunks) >= 1
    /\ port[1].discToReq = "none"
    /\ posted[1][Len(posted[1])].type = "error"
    /\ fet[1].pc = "done"

\* C36: every call of downloadFileViaBackground eventually settles, with a
\* payload or with null, provided timers fire; also when the Fetcher never
\* answers because it ignored the initiation message or stalled in the
\* middle of the body.
C36_CallSettles ==
    \A s \in Sessions : (req[s].state = "open") ~> req[s].settled

\* The Fetcher ignored the initiation message (it has no url) and the
\* session was settled by the timer.
C36_Witness ==
    /\ req[1].settled
    /\ req[1].timer = "fired"
    /\ fet[1] = FetIdle
    /\ port[1].name = StreamPortName
    /\ port[1].toFetcher = <<>>
    /\ posted[1] = <<>>

\* C37: a message that reaches the service worker on a port whose name is
\* not downloadFileStream, or whose action is not downloadFileStream, or that
\* carries no url, causes no network request, no reply and no registration
\* of a disconnect listener: the Fetcher's state is left as it was.
C37_FilteredMessageNoEffect ==
    [][\A s \in DOMAIN fet :
          LET p == port[PortOf(s)]
          IN  (/\ fet[s].pc = "idle"
               /\ p.toFetcher # <<>>
               /\ \/ p.name # "downloadFileStream"
                  \/ Head(p.toFetcher).action # "downloadFileStream"
                  \/ Head(p.toFetcher).url = ""
               /\ port'[PortOf(s)].toFetcher = Tail(p.toFetcher)
               /\ fet'[s].pc # "dead")
              => /\ fet'[s] = fet[s]
                 /\ fet'[s].requests = <<>>
                 /\ ~fet'[s].listener
                 /\ posted' = posted
                 /\ port'[PortOf(s)].toReq = p.toReq]_vars

\* A port connected with another name carried a well-formed initiation
\* message: it was dropped and the Fetcher did nothing.
C37_Witness ==
    /\ port[1].name = "popup"
    /\ port[1].toFetcher = <<>>
    /\ fet[1] = FetIdle
    /\ posted[1] = <<>>
    /\ req[1].state = "none"

\* C38: the cancellation state of the Fetcher belongs to one session: the
\* disconnect of a port sets the flag and aborts the request of the handler
\* run started on that port only; the runs on other ports, which may be in
\* progress at the same time because an earlier session has not yet observed
\* its cancellation, are not touched and go on to complete.
C38_CancellationPerSession ==
    [][\A s \in DOMAIN fet :
          (~fet[s].disconnected /\ fet'[s].disconnected) =>
              /\ port[PortOf(s)].discToFet = "pending"
              /\ port'[PortOf(s)].discToFet = "delivered"
              /\ fet'[s].aborted
              /\ \A t \in DOMAIN fet \ {s} :
                    /\ fet'[t] = fet[t]
                    /\ posted'[PortOf(t)] = posted[PortOf(t)]
                    /\ port'[PortOf(t)] = port[PortOf(t)]]_vars

\* The first session timed out and its Fetcher observed the disconnect while
\* a read was in flight; with that read still pending, the second session
\* was served and completed with its payload.
C38_Witness ==
    /\ DOMAIN fet = {1, 2}
    /\ fet[1].disconnected
    /\ fet[1].pc = "reading"
    /\ req[2].result.kind = "blob"
    /\ ~fet[2].disconnected
    /\ fet[2].pc = "done"

----------------------------------------------------------------------------
(* The strategy cascade: downloadFile(url, filename, blobUrl, useApiAuth,   *)
(* apiAuthHeader)                                                          *)

\* What downloadFile reads of its url argument.  scheme "relative": a url
\* with no scheme, such as /secure/attachment/1/a.png.
Urls ==
    {[scheme |-> "https", attachment |-> a, restApi |-> r] : a, r \in BOOLEAN}
    \cup {[scheme |-> "blob", attachment |-> FALSE, restApi |-> FALSE],
          [scheme |-> "data", attachment |-> FALSE, restApi |-> FALSE],
          [scheme |-> "relative", attachment |-> TRUE, restApi |-> FALSE]}

\* The arguments of a call.  The coordinators pass (false, null) or
\* (true, authHeader) for useApiAuth and apiAuthHeader.  blobUrl: a blob: url
\* was passed as the third argument; discovery gives one only to a descriptor
\* whose url is an http(s) url (extractor.js:942-1000).
CascadeInputs ==
    {i \in {[url |-> u, blobUrl |-> b, useApiAuth |-> a, apiAuthHeader |-> a] :
                u \in Urls, b \in BOOLEAN, a \in BOOLEAN} :
        i.blobUrl => i.url.scheme = "https"}

NoResponse == [ok |-> FALSE, status |-> -1, type |-> "null"]

\* What a fetch() of the content script resolves with.
PageResponses ==
    {[ok |-> TRUE,  status |-> 200, type |-> "cors"],
     [ok |-> FALSE, status |-> 403, type |-> "cors"],
     [ok |-> FALSE, status |-> 404, type |-> "cors"],
     [ok |-> FALSE, status |-> 0,   type |-> "opaque"]}

NoPayload == [kind |-> "pending", from |-> 0, size |-> 0]

\* Sizes of the bodies the transports of the content script deliver.
BlobSizes == {0, 1, MAX_CHUNK_SIZE + 1}

\* What a strategy's transport answered: kind says how it ended, size is the
\* length of the body it delivered (0 when it delivered none).
Outcome(kind, size) == [kind |-> kind, size |-> size]

Outcomes(failures, success) ==
    {Outcome(k, 0) : k \in failures} \cup {Outcome(success, n) : n \in BlobSizes}

\* blob.size > 0
NonEmptyAlways(size) == TRUE

NonEmpty(size) == size > 0

\* background.js:66-68  the base64 text of a body of size bytes (the part of
\* the data url after the comma): its length
Base64Length(size) == 4 * ((size + 2) \div 3)

\* extractor.js:1462  response.blob: a string is truthy iff it is not empty
Truthy(length) == length > 0

CasIdle ==
    [pc |-> "idle", in |-> [url |-> [scheme |-> "https", attachment |-> FALSE,
                                     restApi |-> FALSE],
                            blobUrl |-> FALSE, useApiAuth |-> FALSE,
                            apiAuthHeader |-> FALSE],
     response |-> NoResponse, attempts |-> <<>>, xhrRet |-> "none",
     xhrLog |-> <<>>, yielded |-> {}, emptied |-> {}, result |-> NoPayload]

\* A strategy is started: a request is issued.
Attempt(c, name, pc) == [c EXCEPT !.attempts = Append(@, name), !.pc = pc]

\* return null / return { filename, blob } / the call rejects
ReturnNull(c) ==
    [c EXCEPT !.pc = "returned", !.result = [kind |-> "null", from |-> 0, size |-> 0]]

Rejects(c) ==
    [c EXCEPT !.pc = "returned", !.result = [kind |-> "throw", from |-> 0, size |-> 0]]

\* The strategy started last produced a payload of more than zero bytes.
Yield(c) == [c EXCEPT !.yielded = @ \cup {Len(c.attempts)}]

\* The strategy started last produced a payload of zero bytes although its
\* transport reported success.
Empty(c) == [c EXCEPT !.emptied = @ \cup {Len(c.attempts)}]

ReturnPayload(c, size) ==
    [(IF size > 0 THEN Yield(c) ELSE Empty(c)) EXCEPT
        !.pc = "returned",
        !.result = [kind |-> "blob", from |-> Len(c.attempts), size |-> size]]

\* downloadFileViaBackground(url, filename) is called
StartStream(c, where) == Attempt(c, "stream", where)

\* extractor.js:1441-1444  catch (error) of the function body
OuterCatch(c) == StartStream(c, "streamOuter")

\* downloadFileViaXHR(url, filename) is called; ret: what follows a null
StartXhr(c, ret) ==
    [Attempt(c, "xhr", "xhr1") EXCEPT !.xhrRet = ret, !.xhrLog = <<>>]

\* extractor.js:1406-1413  catch (corsError)
InnerCatch(c) == StartXhr(c, "stream")

\* extractor.js:1415-1432  after the inner try
AfterTry(c) ==
    IF ~c.response.ok THEN
        IF c.response.status = 403 \/ c.response.type = "opaque"
        THEN StartXhr(c, "stream")
        ELSE OuterCatch(c)
    ELSE [c EXCEPT !.pc = "blob"]

\* extractor.js:1386-1405
AfterInclude(c) ==
    IF c.response = NoResponse \/ c.response.type = "opaque"
    THEN StartStream(c, "streamTry")
    ELSE IF ~c.response.ok /\ c.response.status = 403
            /\ c.in.useApiAuth /\ c.in.apiAuthHeader
         THEN Attempt(c, "fetchSameOriginRetry", "fetch3")
         ELSE AfterTry(c)

\* extractor.js:1356-1374  the same-origin fetch, with the Authorization
\* header for an API url
FetchTry(c) ==
    Attempt(c,
            IF c.in.useApiAuth /\ c.in.apiAuthHeader /\ c.in.url.restApi
            THEN "fetchSameOriginAuth" ELSE "fetchSameOrigin",
            "fetch1")

\* extractor.js:1346-1352
CheckAttachment(c) ==
    IF c.in.url.attachment THEN StartXhr(c, "fetch") ELSE FetchTry(c)

\* extractor.js:1330-1342
CheckUrl(c) ==
    IF c.in.url.scheme \in {"blob", "data"} THEN ReturnNull(c)
    ELSE IF c.in.useApiAuth /\ c.in.apiAuthHeader
         THEN Attempt(c, "bgBlob", "bgBlob")
         ELSE CheckAttachment(c)

\* extractor.js:1315-1318
StartSkipsHandle(c) == CheckUrl(c)

Start(c) ==
    IF c.in.blobUrl THEN Attempt(c, "blobUrl", "blobFetch") ELSE CheckUrl(c)

\* extractor.js:1318-1328  fetch(blobUrl) and response.blob() settled
AfterBlobUrl(c, o) ==
    IF o.kind = "blob" /\ NonEmpty(o.size) THEN ReturnPayload(c, o.size)
    ELSE IF o.kind = "blob" THEN CheckUrl(Empty(c))
    ELSE CheckUrl(c)

\* extractor.js:1339-1341, 1455-1481  the one-shot request was answered
AfterBgBlob(c, o) ==
    IF o.kind = "success" /\ Truthy(Base64Length(o.size)) THEN ReturnPayload(c, o.size)
    ELSE IF o.kind = "throw" THEN OuterCatch(c)
    ELSE IF o.kind = "success" THEN CheckAttachment(Empty(c))
    ELSE CheckAttachment(c)

\* downloadFileViaXHR resolved null
XhrNull(c) ==
    IF c.xhrRet = "fetch" THEN FetchTry(c) ELSE StartStream(c, "streamCatch")

\* extractor.js:1349, 1410, 1424  if (xhrResult) return xhrResult
AfterXhrPayloadFallThrough(c, size) == XhrNull(Yield(c))

AfterXhrPayload(c, size) == ReturnPayload(c, size)

\* The event o of the request in flight is noted in the log of the call:
\* xhr.withCredentials of the request it belongs to, and what it was.
XhrEvent(c, o) ==
    [c EXCEPT !.xhrLog = Append(@, [withCredentials |-> c.pc = "xhr1",
                                    event |-> o.kind, size |-> o.size])]

\* extractor.js:1495-1555  an event of the XMLHttpRequest in flight: load
\* with status 200 and a body, load with another status, error, timeout
AfterXhrRetriesTimeout(c0, o) ==
    LET c == XhrEvent(c0, o)
    IN  IF o.kind = "load200" /\ NonEmpty(o.size) THEN AfterXhrPayload(c, o.size)
        ELSE IF o.kind = "load200" THEN XhrNull(Empty(c))
        ELSE IF o.kind \in {"error", "timeout"} /\ c.pc = "xhr1"
             THEN Attempt(c, "xhrNoCredentials", "xhr2")
        ELSE XhrNull(c)

AfterXhr(c0, o) ==
    LET c == XhrEvent(c0, o)
    IN  IF o.kind = "load200" /\ NonEmpty(o.size) THEN AfterXhrPayload(c, o.size)
        ELSE IF o.kind = "load200" THEN XhrNull(Empty(c))
        ELSE IF o.kind = "error" /\ c.pc = "xhr1"
             THEN Attempt(c, "xhrNoCredentials", "xhr2")
        ELSE XhrNull(c)

\* extractor.js:1374-1384  the same-origin fetch settled
AfterFetch1(c, o) ==
    IF o = NoResponse THEN InnerCatch(c)
    ELSE IF ~o.ok THEN Attempt([c EXCEPT !.response = o], "fetchInclude", "fetch2")
    ELSE AfterInclude([c EXCEPT !.response = o])

\* extractor.js:1379-1383  the include-credentials fetch settled; a rejection
\* is turned into null
AfterFetch2(c, o) == AfterInclude([c EXCEPT !.response = o])

\* extractor.js:1400-1404  the retried same-origin fetch settled
AfterFetch3(c, o) ==
    IF o = NoResponse THEN InnerCatch(c)
    ELSE AfterTry([c EXCEPT !.response = o])

\* extractor.js:1432-1440  response.blob() settled
AfterBlob(c, o) ==
    IF o.kind = "throw" THEN OuterCatch(c)
    ELSE IF o.size = 0 THEN ReturnNull(Empty(c))
    ELSE ReturnPayload(c, o.size)

\* The Requester's listener applied to the messages msgs in turn; a session
\* they leave open is ended by the timer.
RECURSIVE Receive(_, _)
Receive(r, msgs) ==
    IF msgs = <<>> THEN OnTimeout(r)
    ELSE Receive(OnMessage(r, Head(msgs)), Tail(msgs))

\* What the Fetcher may answer on the port of a session with request id 1.
StreamAnswers ==
    LET run(lo, hi) == ChunkMsg(1, [src |-> 1, lo |-> lo, hi |-> hi])
    IN  {<<CompleteMsg(1, "")>>,
         <<run(0, 0), CompleteMsg(1, "")>>,
         <<run(0, 1), CompleteMsg(1, "application/pdf")>>,
         <<run(0, MAX_CHUNK_SIZE), run(MAX_CHUNK_SIZE, MAX_CHUNK_SIZE + 1),
           CompleteMsg(1, "")>>,
         <<run(0, 1), ErrorMsg(1, "network error")>>,
         <<run(0, 1)>>}

\* What an awaited downloadFileViaBackground settles with: the result the
\* Requester resolves, or a rejection (chrome.runtime.connect threw).
StreamOutcomes ==
    {Outcome("throw", 0)}
    \cup {LET res == Receive([ReqIdle EXCEPT !.state = "open", !.requestId = 1,
                                             !.timer = "armed"], a).result
          IN  Outcome(res.kind, SizeOf(res.bytes)) : a \in StreamAnswers}

\* extractor.js:1389-1394, 1412, 1427, 1443  downloadFileViaBackground settled
AfterStream(c, o) ==
    IF o.kind = "blob" THEN ReturnPayload(c, o.size)
    ELSE IF o.kind = "null" THEN ReturnNull(c)
    ELSE IF c.pc = "streamTry" THEN InnerCatch(c)
    ELSE IF c.pc = "streamCatch" THEN OuterCatch(c)
    ELSE Rejects(c)

CallDownloadFile ==
    /\ cas.pc = "called"
    /\ cas' = Start(cas)
    /\ UNCHANGED <<streamVars, job, shot, chk>>

BlobUrlSettles ==
    /\ cas.pc = "blobFetch"
    /\ \E o \in Outcomes({"throw", "notOk"}, "blob") : cas' = AfterBlobUrl(cas, o)
    /\ UNCHANGED <<streamVars, job, shot, chk>>

BgBlobSettles ==
    /\ cas.pc = "bgBlob"
    /\ \E o \in Outcomes({"throw", "lastError", "failure"}, "success") :
          cas' = AfterBgBlob(cas, o)
    /\ UNCHANGED <<streamVars, job, shot, chk>>

XhrSettles ==
    /\ cas.pc \in {"xhr1", "xhr2"}
    /\ \E o \in Outcomes({"status", "error", "timeout"}, "load200") :
          cas' = AfterXhr(cas, o)
    /\ UNCHANGED <<streamVars, job, shot, chk>>

Fetch1Settles ==
    /\ cas.pc = "fetch1"
    /\ \E o \in PageResponses \cup {NoResponse} : cas' = AfterFetch1(cas, o)
    /\ UNCHANGED <<streamVars, job, shot, chk>>

Fetch2Settles ==
    /\ cas.pc = "fetch2"
    /\ \E o \in PageResponses \cup {NoResponse} : cas' = AfterFetch2(cas, o)
    /\ UNCHANGED <<streamVars, job, shot, chk>>

Fetch3Settles ==
    /\ cas.pc = "fetch3"
    /\ \E o \in PageResponses \cup {NoResponse} : cas' = AfterFetch3(cas, o)
    /\ UNCHANGED <<streamVars, job, shot, chk>>

BlobSettles ==
    /\ cas.pc = "blob"
    /\ \E o \in Outcomes({"throw"}, "blob") : cas' = AfterBlob(cas, o)
    /\ UNCHANGED <<streamVars, job, shot, chk>>

StreamSettles ==
    /\ cas.pc \in {"streamTry", "streamCatch", "streamOuter"}
    /\ \E o \in StreamOutcomes : cas' = AfterStream(cas, o)
    /\ UNCHANGED <<streamVars, job, shot, chk>>

----------------------------------------------------------------------------
(* Properties of the cascade *)

\* C5: once a strategy has yielded a non-empty payload, that payload is
\* returned for the resource and no later strategy is invoked.
C5_FirstPayloadReturned ==
    \A k \in cas.yielded :
        /\ k = Len(cas.attempts)
        /\ cas.pc = "returned"
        /\ cas.result.kind = "blob"
        /\ cas.result.from = k

\* A payload was yielded by a strategy that is neither the first nor the
\* last of the cascade, after two strategies had failed, and it was returned.
C5_Witness ==
    /\ cas.pc = "returned"
    /\ Len(cas.attempts) >= 3
    /\ Len(cas.attempts) \in cas.yielded
    /\ cas.attempts[Len(cas.attempts)] = "xhr"

\* C6: a strategy that yields a zero-length payload for a network url does
\* not end the cascade: the cascade does not return straight after it.
C6_EmptyPayloadProceeds ==
    \A k \in cas.emptied :
        cas.in.url.scheme = "https" =>
            ~(cas.pc = "returned" /\ k = Len(cas.attempts))

\* Strategy name was started before the k-th attempt of the run.
AttemptedBefore(name, k) == \E m \in 1..(k - 1) : cas.attempts[m] = name

\* C14: the streaming fetch is the last resort: when it is invoked, the
\* same-origin fetch and the XMLHttpRequest strategy have been attempted for
\* the resource before it (and have failed).
C14_StreamIsLastResort ==
    \A k \in 1..Len(cas.attempts) :
        cas.attempts[k] = "stream" =>
            /\ AttemptedBefore("fetchSameOrigin", k)
                  \/ AttemptedBefore("fetchSameOriginAuth", k)
            /\ AttemptedBefore("xhr", k)
            /\ \A m \in 1..(k - 1) : m \notin cas.yielded

C16_ResultNonEmpty ==
    cas.result.kind = "blob" => cas.result.size > 0

\* A result was returned by each kind of strategy: here by the one-shot
\* request, whose result is not tested for its size in the content script.
C16_Witness ==
    /\ cas.pc = "returned"
    /\ cas.result.kind = "blob"
    /\ cas.attempts[cas.result.from] = "bgBlob"
    /\ cas.result.size = 1

\* C21: for a url that is not an absolute network url (a relative url, a
\* blob: or a data: url) the cascade makes no network attempt and returns
\* failure.
C21_NonNetworkUrlRejected ==
    (cas.in.url.scheme # "https" /\ cas.pc \notin {"idle", "called"}) =>
        /\ \A k \in 1..Len(cas.attempts) : cas.attempts[k] = "blobUrl"
        /\ cas.pc = "returned" => cas.result.kind = "null"

\* C29: when the same-context requests leave the content script blocked (no
\* response, or an opaque one), the cascade delegates to the one-shot request
\* (downloadFileAsBlob) before any use of the streaming mode.
C29_BlockedDelegatesToOneShot ==
    \A k \in 1..Len(cas.attempts) :
        (/\ cas.attempts[k] = "stream"
         /\ k > 1
         /\ cas.attempts[k - 1] \in {"fetchSameOrigin", "fetchSameOriginAuth",
                                     "fetchInclude"}
         /\ cas.response = NoResponse \/ cas.response.type = "opaque")
        => AttemptedBefore("bgBlob", k)

\* extractor.js:1339, 1454, 1366-1371  the requests that carry the
\* Authorization header: the one-shot request, which downloadFile always
\* calls with apiAuthHeader, and the same-origin fetch of an API url
SendsAuthorization(name) == name \in {"bgBlob", "fetchSameOriginAuth"}

\* C30: the cascade sends the Authorization header only when an auth header
\* was supplied and the url is an API url (/rest/api/); after a 403 it goes
\* on with a browser-session request that does not carry the header.
C30_AuthorizationOnlyForApiUrls ==
    /\ \A k \in 1..Len(cas.attempts) :
          SendsAuthorization(cas.attempts[k]) =>
              (cas.in.useApiAuth /\ cas.in.apiAuthHeader /\ cas.in.url.restApi)
    /\ \A k \in 1..(Len(cas.attempts) - 1) :
          SendsAuthorization(cas.attempts[k]) =>
              ~SendsAuthorization(cas.attempts[k + 1])

\* The number of times strategy name was started in the run.
TimesAttempted(name) ==
    Cardinality({k \in 1..Len(cas.attempts) : cas.attempts[k] = name})

\* C31: during one run of the cascade every strategy is attempted at most
\* once; in particular downloadFileViaXHR and downloadFileViaBackground are
\* each called at most once.
C31_EachStrategyOnce ==
    /\ TimesAttempted("xhr") <= 1
    /\ TimesAttempted("stream") <= 1
    /\ \A a, b \in 1..Len(cas.attempts) :
          a # b => cas.attempts[a] # cas.attempts[b]

\* The last event of the XMLHttpRequest call in progress after a step.
LastXhrEvent == cas'.xhrLog[Len(cas'.xhrLog)]

\* C32: downloadFileViaXHR sends its first request with credentials; it
\* sends one further request, without credentials, exactly when the first
\* request ends with a transport error; a status other than 200, an empty
\* body or a timeout resolves the call with null and no retry; the call
\* resolves once (it leaves the call at the event that is not retried).
C32_XhrRetriesOnlyOnError ==
    [][cas.pc \in {"xhr1", "xhr2"} =>
          /\ Len(cas'.xhrLog) = Len(cas.xhrLog) + 1
          /\ Len(cas'.xhrLog) <= 2
          /\ cas'.xhrLog[1].withCredentials
          /\ Len(cas'.xhrLog) = 2 =>
                /\ ~cas'.xhrLog[2].withCredentials
                /\ cas'.xhrLog[1].event = "error"
          /\ cas'.pc = "xhr2" <=> (cas.pc = "xhr1" /\ LastXhrEvent.event = "error")
          /\ cas'.pc = "xhr2" =>
                cas'.attempts = Append(cas.attempts, "xhrNoCredentials")
          /\ cas'.pc # "xhr1"
          /\ (\/ LastXhrEvent.event \in {"status", "timeout"}
              \/ LastXhrEvent.event = "load200" /\ LastXhrEvent.size = 0
              \/ LastXhrEvent.event = "error" /\ cas.pc = "xhr2") =>
                /\ cas'.pc \notin {"xhr2", "returned"}
                /\ cas'.yielded = cas.yielded
                /\ Len(cas'.attempts) = Len(cas.attempts) + 1]_vars

\* The first request ended with a transport error, the request without
\* credentials timed out and the call resolved null: the cascade went on.
C32_Witness ==
    /\ Len(cas.xhrLog) = 2
    /\ cas.xhrLog[1].event = "error"
    /\ cas.xhrLog[2].event = "timeout"
    /\ cas.pc \notin {"xhr1", "xhr2"}
    /\ cas.attempts[Len(cas.attempts) - 1] = "xhrNoCredentials"

\* C33: whenever the same-origin fetch fails outright, by a response that
\* is not ok or by a thrown transport or CORS error, the include-credentials
\* fetch is the next strategy attempted.
C33_IncludeFollowsSameOrigin ==
    [][(cas.pc = "fetch1" /\ cas'.pc # "fetch1" /\ ~cas'.response.ok) =>
          cas'.attempts = Append(cas.attempts, "fetchInclude")]_vars

----------------------------------------------------------------------------
(* The one-shot request: downloadFileViaBackgroundBlob in the content       *)
(* script and the downloadFileAsBlob branch of the service worker's         *)
(* chrome.runtime.onMessage listener                                        *)

\* pc: where the worker's handler is.  url, headers: the request, and whether
\* it carries an Authorization header.  requests: the fetches issued, each with what it
\* sent.  responses: the arguments of the sendResponse calls, in order.
\* size, type: the blob read.  callback: whether the sender's callback has
\* run.  result: what the sender's promise resolved with.
ShotIdle ==
    [pc |-> "idle", url |-> "", headers |-> FALSE, requests |-> <<>>, responses |-> <<>>,
     size |-> 0, type |-> "", callback |-> FALSE,
     result |-> [kind |-> "pending", size |-> 0]]

\* background.js:46-55  fetchOptions
FetchOptions(headers) ==
    IF headers THEN [mode |-> "cors", headers |-> TRUE, credentials |-> "default"]
    ELSE [mode |-> "cors", headers |-> FALSE, credentials |-> "include"]

\* background.js:60  the message of the error thrown for a response not ok
HttpError(status) ==
    CASE status = 403 -> "HTTP 403"
      [] status = 404 -> "HTTP 404"
      [] OTHER -> "HTTP 0"

\* sendResponse(r)
SendResponse(sh, r) == [sh EXCEPT !.responses = Append(@, r)]

\* background.js:71-76  { success: true, blob: base64data, type, size }; the
\* base64 text is kept as its length and the bytes it encodes
SuccessResponse(size, type) ==
    [success |-> TRUE, blob |-> [length |-> Base64Length(size), bytes |-> size],
     type |-> type, size |-> size]

FailureResponse(error) == [success |-> FALSE, error |-> error]

\* background.js:81-83  .catch(error => sendResponse({ success: false, ... }))
CatchSilent(sh, error) == [sh EXCEPT !.pc = "done"]

Catch(sh, error) == SendResponse([sh EXCEPT !.pc = "done"], FailureResponse(error))

\* background.js:58-63  the first .then: the response of the fetch
ThenResponse(sh, r) ==
    IF ~r.ok THEN Catch(sh, HttpError(r.status)) ELSE [sh EXCEPT !.pc = "blob"]

\* background.js:64-80  the second .then: the blob is handed to a FileReader
ThenBlob(sh, size, type) == [sh EXCEPT !.pc = "reading", !.size = size, !.type = type]

\* background.js:67-76  reader.onloadend.  It also runs after a failed read,
\* where reader.result is null and reader.result.split throws before
\* sendResponse is reached.
OnLoadEnd(sh, resultIsNull) ==
    IF resultIsNull THEN [sh EXCEPT !.pc = "done"]
    ELSE SendResponse([sh EXCEPT !.pc = "done"], SuccessResponse(sh.size, sh.type))

\* background.js:77-79  reader.onerror
OnError(sh) == SendResponse(sh, FailureResponse("Failed to read blob"))

\* atob(response.blob) and new Blob([byteArray]): the bytes the text encodes
Decoded(base64) == base64.bytes

\* extractor.js:1455-1481  the callback of chrome.runtime.sendMessage
Callback(sh, lastError, response) ==
    [sh EXCEPT !.callback = TRUE,
               !.result = IF lastError THEN [kind |-> "null", size |-> 0]
                          ELSE IF response.success /\ Truthy(response.blob.length)
                               THEN [kind |-> "blob", size |-> Decoded(response.blob)]
                               ELSE [kind |-> "null", size |-> 0]]

\* extractor.js:1450-1455, background.js:45-57  the message is sent and the
\* worker's listener issues the fetch
ShotSend ==
    /\ shot.pc = "called"
    /\ shot' = [shot EXCEPT !.pc = "fetch",
                            !.requests = Append(@, [url |-> shot.url,
                                                    options |-> FetchOptions(shot.headers)])]
    /\ UNCHANGED <<streamVars, cas, job, chk>>

\* background.js:57-63, 81-83  the fetch settles
ShotFetchSettles ==
    /\ shot.pc = "fetch"
    /\ \/ shot' = Catch(shot, "Failed to fetch")
       \/ \E r \in Responses : shot' = ThenResponse(shot, r)
    /\ UNCHANGED <<streamVars, cas, job, chk>>

\* background.js:62-66  response.blob() settles
ShotBlobSettles ==
    /\ shot.pc = "blob"
    /\ \/ shot' = Catch(shot, "network error")
       \/ \E n \in BlobSizes : \E ct \in ContentTypes : shot' = ThenBlob(shot, n, ct)
    /\ UNCHANGED <<streamVars, cas, job, chk>>

\* background.js:67-80  the FileReader ends: load and loadend, or error and
\* loadend
ShotReaderEnds ==
    /\ shot.pc = "reading"
    /\ \/ shot' = OnLoadEnd(shot, FALSE)
       \/ shot' = OnLoadEnd(OnError(shot), TRUE)
    /\ UNCHANGED <<streamVars, cas, job, chk>>

\* extractor.js:1455-1481  the first response reaches the sender's callback
ShotCallback ==
    /\ ~shot.callback
    /\ shot.responses # <<>>
    /\ shot' = Callback(shot, FALSE, shot.responses[1])
    /\ UNCHANGED <<streamVars, cas, job, chk>>

\* The browser stops the service worker before the handler has answered: the
\* message channel closes and the callback runs with chrome.runtime.lastError
ShotWorkerStopped ==
    /\ shot.pc \in {"fetch", "blob", "reading"}
    /\ ~shot.callback
    /\ shot' = Callback([shot EXCEPT !.pc = "dead"], TRUE, FailureResponse(""))
    /\ UNCHANGED <<streamVars, cas, job, chk>>

\* C22: a one-shot request performs a single network request; when its
\* handler has run to its end it has answered exactly once, with
\* {success: true, encoded payload, contentType, size} if the response was ok
\* and its body was read and with {success: false, error} otherwise; it never
\* answers twice.
C22_OneRequestOneResponse ==
    /\ Len(shot.requests) <= 1
    /\ Len(shot.responses) <= 1
    /\ shot.pc = "done" =>
          /\ Len(shot.requests) = 1
          /\ Len(shot.responses) = 1
          /\ shot.responses[1].success =>
                shot.responses[1] = SuccessResponse(shot.size, shot.type)
          /\ ~shot.responses[1].success => DOMAIN shot.responses[1] = {"success", "error"}

\* The body was fetched but the FileReader failed: the handler answered
\* failure once and the sender resolved null.
C22_Witness ==
    /\ shot.pc = "done"
    /\ shot.responses = <<FailureResponse("Failed to read blob")>>
    /\ shot.size > 0
    /\ shot.callback
    /\ shot.result.kind = "null"

----------------------------------------------------------------------------
(* Checklists of an iframe: requestChecklistsFromFrame in the top frame and *)
(* the listener of setupChecklistFrameListener in the iframe                *)

\* The largest value of the retries argument.  The one call of the function
\* (extractor.js:596) passes none and gets the default, 3.
MaxRetries == 3

\* event.data.checklists of a response: undefined, or a list of checklists
ChecklistData == {"undefined", "listA", "listB"}

\* pc: "called" before the promise executor has run.  retries: the argument.
\* hasWindow: iframe.contentWindow is not null.  settled, attempts, timer:
\* the locals of the call.  listening: handler is a message listener of the
\* window.  requests: the request messages posted to the iframe.  atFrame:
\* the requests the iframe has not answered yet.  toParent: message events
\* on their way to the top window.  strays: message events of other windows
\* made so far.  resolves: the arguments of the resolve calls, in order.
ChkIdle ==
    [pc |-> "idle", retries |-> 0, hasWindow |-> FALSE, settled |-> FALSE,
     attempts |-> 0, timer |-> "none", listening |-> FALSE, requests |-> 0,
     atFrame |-> 0, toParent |-> <<>>, strays |-> 0, resolves |-> <<>>]

Response(source, checklists) ==
    [source |-> source, type |-> "jira-extractor-response-checklists",
     checklists |-> checklists]

\* extractor.js:552  event.data.checklists || []
OrEmpty(checklists) == IF checklists = "undefined" THEN "empty" ELSE checklists

\* extractor.js:545-555  handler(event)
Handler(c, event) ==
    IF event.source = "frame" /\ event.type = "jira-extractor-response-checklists"
       /\ ~c.settled
    THEN [c EXCEPT !.settled = TRUE,
                   !.timer = IF @ = "armed" THEN "cleared" ELSE @,
                   !.listening = FALSE,
                   !.resolves = Append(@, OrEmpty(event.checklists))]
    ELSE c

\* extractor.js:560-573  send()
SendOneMore(c0) ==
    LET c == [c0 EXCEPT !.attempts = @ + 1]
    IN  IF c.attempts > c.retries + 1 THEN
            IF ~c.settled
            THEN [c EXCEPT !.settled = TRUE,
                           !.timer = IF @ = "armed" THEN "cleared" ELSE @,
                           !.listening = FALSE,
                           !.resolves = Append(@, "empty")]
            ELSE c
        ELSE [c EXCEPT !.requests = IF c.hasWindow THEN @ + 1 ELSE @,
                       !.atFrame = IF c.hasWindow THEN @ + 1 ELSE @,
                       !.timer = "armed"]

Send(c0) ==
    LET c == [c0 EXCEPT !.attempts = @ + 1]
    IN  IF c.attempts > c.retries THEN
            IF ~c.settled
            THEN [c EXCEPT !.settled = TRUE,
                           !.timer = IF @ = "armed" THEN "cleared" ELSE @,
                           !.listening = FALSE,
                           !.resolves = Append(@, "empty")]
            ELSE c
        ELSE [c EXCEPT !.requests = IF c.hasWindow THEN @ + 1 ELSE @,
                       !.atFrame = IF c.hasWindow THEN @ + 1 ELSE @,
                       !.timer = "armed"]

\* extractor.js:540-574  the promise executor: the listener is added and
\* send() is called
ChkStart ==
    /\ chk.pc = "called"
    /\ chk' = Send([chk EXCEPT !.pc = "waiting", !.listening = TRUE])
    /\ UNCHANGED <<streamVars, cas, job, shot>>

\* extractor.js:572  the timer set by send() fires
ChkTimer ==
    /\ chk.timer = "armed"
    /\ chk' = Send([chk EXCEPT !.timer = "fired"])
    /\ UNCHANGED <<streamVars, cas, job, shot>>

\* extractor.js:525-537  the listener of the iframe answers a request, or
\* fails to (waitForChecklistElements threw, or the script does not run in
\* the iframe)
FrameAnswers ==
    /\ chk.atFrame > 0
    /\ \/ \E d \in ChecklistData :
             chk' = [chk EXCEPT !.atFrame = @ - 1,
                                !.toParent = Append(@, Response("frame", d))]
       \/ chk' = [chk EXCEPT !.atFrame = @ - 1]
    /\ UNCHANGED <<streamVars, cas, job, shot>>

\* Another window posts a message to the top window: a response of the same
\* type, or something else
OtherWindowPosts ==
    /\ chk.pc = "waiting"
    /\ chk.strays < 1
    /\ \E m \in {Response("other", "listB"),
                  [source |-> "frame", type |-> "other", checklists |-> "listB"]} :
          chk' = [chk EXCEPT !.strays = @ + 1, !.toParent = Append(@, m)]
    /\ UNCHANGED <<streamVars, cas, job, shot>>

\* A message event is dispatched in the top window: handler runs if it is
\* still a listener
ChkOnMessage ==
    /\ chk.toParent # <<>>
    /\ chk' = IF chk.listening
              THEN Handler([chk EXCEPT !.toParent = Tail(@)], Head(chk.toParent))
              ELSE [chk EXCEPT !.toParent = Tail(@)]
    /\ UNCHANGED <<streamVars, cas, job, shot>>

\* The step dispatches a response of the iframe's own window to a handler
\* that is still listening.
FrameResponseDelivered ==
    /\ chk.toParent # <<>>
    /\ chk'.toParent = Tail(chk.toParent)
    /\ Head(chk.toParent).source = "frame"
    /\ Head(chk.toParent).type = "jira-extractor-response-checklists"

\* C40: requestChecklistsFromFrame posts at most retries request messages
\* and resolves once: with the checklists of the first response that comes
\* from the iframe's own window (an empty list when it carries none), or
\* with an empty list when all attempts are used up without one; once
\* resolved it posts no request and ignores every later response.
C40_ChecklistRequestResolvesOnce ==
    [][/\ chk'.requests <= chk.retries
       /\ Len(chk'.resolves) <= 1
       /\ chk.resolves # <<>> =>
             /\ chk'.resolves = chk.resolves
             /\ chk'.requests = chk.requests
             /\ chk'.timer # "armed"
             /\ ~chk'.listening
       /\ (chk.resolves = <<>> /\ FrameResponseDelivered) =>
             chk'.resolves =
                 <<IF Head(chk.toParent).checklists = "undefined" THEN "empty"
                   ELSE Head(chk.toParent).checklists>>
       /\ (chk.resolves = <<>> /\ chk'.resolves # <<>> /\ ~FrameResponseDelivered) =>
             /\ chk'.resolves = <<"empty">>
             /\ chk'.attempts = chk.retries + 1
             /\ chk'.toParent = chk.toParent
       /\ (chk'.pc = "waiting" /\ chk'.resolves = <<>>) =>
             /\ chk'.timer = "armed"
             /\ chk'.listening]_vars

\* Two requests were posted, another window's response was ignored, the
\* iframe's first response resolved the call, and its second response came
\* too late.
C40_Witness ==
    /\ chk.requests = 2
    /\ chk.strays = 1
    /\ chk.resolves = <<"listA">>
    /\ chk.toParent = <<>>
    /\ chk.atFrame = 0
    /\ chk.retries = 3

----------------------------------------------------------------------------
(* File names.  A string is the sequence of its characters. *)

\* extractor.js:2024, 1862  the character class of /[<>:"/\\|?*]/g
Reserved == {"<", ">", ":", "\"", "/", "\\", "|", "?", "*"}

Digit == <<"0", "1", "2", "3", "4", "5", "6", "7", "8", "9">>

\* The letters that occur in the names and urls below.
Alnum == {"a", "b", "c", "d", "h", "i", "n", "t", "T"} \cup {Digit[k] : k \in 1..10}

\* String.prototype.toLowerCase, on one character
Lower(ch) == IF ch = "T" THEN "t" ELSE ch

ToLowerCase(s) == [k \in 1..Len(s) |-> Lower(s[k])]

\* s.replace(/[<>:"/\\|?*]/g, '_')
ReplaceReserved(s) == [k \in 1..Len(s) |-> IF s[k] \in Reserved THEN "_" ELSE s[k]]

\* String.prototype.trim
RECURSIVE Trim(_)
Trim(s) ==
    IF s = <<>> THEN s
    ELSE IF s[1] = " " THEN Trim(Tail(s))
    ELSE IF s[Len(s)] = " " THEN Trim(SubSeq(s, 1, Len(s) - 1))
    ELSE s

\* String.prototype.split(sep), sep one character
RECURSIVE Split(_, _)
Split(s, sep) ==
    IF \A k \in 1..Len(s) : s[k] # sep THEN <<s>>
    ELSE LET k == CHOOSE k \in 1..Len(s) :
                     s[k] = sep /\ \A m \in 1..(k - 1) : s[m] # sep
         IN  <<SubSeq(s, 1, k - 1)>> \o Split(SubSeq(s, k + 1, Len(s)), sep)

\* Array.prototype.join(sep)
RECURSIVE Join(_, _)
Join(parts, sep) ==
    IF parts = <<>> THEN <<>>
    ELSE IF Len(parts) = 1 THEN parts[1]
    ELSE parts[1] \o <<sep>> \o Join(Tail(parts), sep)

\* String.prototype.endsWith
EndsWith(s, suffix) ==
    /\ Len(suffix) <= Len(s)
    /\ SubSeq(s, Len(s) - Len(suffix) + 1, Len(s)) = suffix

\* filename.match(/\.[a-z0-9]+$/i)
HasExt(s) ==
    \E k \in 1..Len(s) :
        /\ s[k] = "."
        /\ k < Len(s)
        /\ \A m \in (k + 1)..Len(s) : s[m] \in Alnum

\* `${counter}`
RECURSIVE Decimal(_)
Decimal(n) ==
    IF n < 10 THEN <<Digit[n + 1]>>
    ELSE Decimal(n \div 10) \o <<Digit[(n % 10) + 1]>>

\* extractor.js:2014-2018  the extension taken from the url
UrlExt(url) ==
    LET urlParts == Split(url, ".")
    IN  IF Len(urlParts) > 1
        THEN Split(Split(urlParts[Len(urlParts)], "?")[1], "#")[1]
        ELSE <<>>

\* extractor.js:1862  the file name in extractTicketViaAPI
ApiFilename(file) == Trim(ReplaceReserved(file.name))

\* extractor.js:2013-2033  the file name in extractTicket
DomFilename(file) ==
    LET ext == UrlExt(file.url)
        filename == Trim(ReplaceReserved(file.name))
    IN  IF ext # <<>>
           /\ ~EndsWith(ToLowerCase(filename), <<".">> \o ToLowerCase(ext))
           /\ ~HasExt(filename)
        THEN filename \o <<".">> \o ext
        ELSE filename

\* extractor.js:2039-2045, 1868-1874  the candidate name of the renaming loop
Renamed(filename, counter) ==
    LET nameParts == Split(filename, ".")
    IN  IF Len(nameParts) > 1
        THEN Join(SubSeq(nameParts, 1, Len(nameParts) - 1), ".")
             \o <<"_">> \o Decimal(counter) \o <<".">> \o nameParts[Len(nameParts)]
        ELSE filename \o <<"_">> \o Decimal(counter)

\* `${ticketKey}/raw/attachments/${finalFilename}`
ArchivePath(finalFilename) == <<"KEY-1/raw/attachments/">> \o finalFilename

\* attachmentPaths.some(a => a.path === path)
CollidesWithFirst(paths, path) == paths # <<>> /\ paths[1].path = path

Collides(paths, path) == \E k \in 1..Len(paths) : paths[k].path = path

----------------------------------------------------------------------------
(* The Batch Download Coordinator: the attachment loops of extractTicket    *)
(* and extractTicketViaAPI                                                 *)

\* The longest list of resources discovery hands to a job.
MaxFiles == 3

\* The resource descriptors discovery may supply.  ui: isUnnecessaryFile(url,
\* name) holds for the descriptor (an avatar, an emoji, an icon).  apiUrl: the
\* content url of the REST API, <<>> when the API gave none (the DOM
\* descriptors have no such field).
Files ==
    {[id |-> 1, name |-> <<"a", ".", "t">>,
      url |-> <<"h", ".", "n", "/", "a", ".", "t">>, ui |-> FALSE,
      apiUrl |-> <<"h", ".", "n", "/", "r", "/", "1">>],
     [id |-> 2, name |-> <<"a", ".", "t">>,
      url |-> <<"h", ".", "n", "/", "b", ".", "t", "?", "c">>, ui |-> FALSE,
      apiUrl |-> <<>>],
     [id |-> 3, name |-> <<"a">>,
      url |-> <<"h", ".", "n", "/", "a">>, ui |-> FALSE, apiUrl |-> <<>>],
     [id |-> 4, name |-> <<"a", "/", "b", " ">>,
      url |-> <<"h", ".", "n", "/", "c", ".", "T">>, ui |-> FALSE, apiUrl |-> <<>>],
     [id |-> 5, name |-> <<"a", "_", "1", ".", "t">>,
      url |-> <<"h", ".", "n", "/", "d", ".", "t">>, ui |-> FALSE, apiUrl |-> <<>>],
     [id |-> 6, name |-> <<"a", ".", "t">>,
      url |-> <<"h", ".", "n", "/", "i", ".", "t">>, ui |-> TRUE, apiUrl |-> <<>>]}

RECURSIVE SeqsUpTo(_, _)
SeqsUpTo(S, n) ==
    IF n = 0 THEN {<<>>}
    ELSE LET shorter == SeqsUpTo(S, n - 1)
         IN  shorter \cup {Append(q, x) : q \in shorter, x \in S}

\* extractor.js:1194-1272
isUnnecessaryFile(file) == file.ui

\* extractor.js:1946-1952  allAttachmentsMap: the first descriptor of a url
RECURSIVE DedupeByUrl(_)
DedupeByUrl(files) ==
    IF files = <<>> THEN <<>>
    ELSE LET front == SubSeq(files, 1, Len(files) - 1)
             last == files[Len(files)]
         IN  IF \E k \in 1..Len(front) : front[k].url = last.url
             THEN DedupeByUrl(front)
             ELSE Append(DedupeByUrl(front), last)

JobStart(phase, discovered) ==
    [phase |-> phase, pc |-> "start", discovered |-> discovered, allFiles |-> <<>>,
     i |-> 1, attachmentPaths |-> <<>>, downloadCount |-> 0, archive |-> <<>>,
     inFlight |-> {}, started |-> {}, outcome |-> <<>>, calls |-> <<>>,
     filename |-> <<>>, finalFilename |-> <<>>, counter |-> 1,
     zipThrew |-> FALSE, result |-> "pending",
     exported |-> <<>>, returned |-> [frameRole |-> "none"],
     triggered |-> 0, apiResult |-> "none"]

\* extractor.js:2011, 1844, 1855  const result = await downloadFile(...): the
\* loop is suspended until the call settles
AfterCallNoAwait(j, pc) == [j EXCEPT !.i = @ + 1, !.outcome = Append(@, "result")]

AfterCall(j, pc) == [j EXCEPT !.pc = pc]

\* The loop goes on with the next file; what became of file i is noted.
Continue(j, what) ==
    [j EXCEPT !.pc = "loop", !.i = @ + 1, !.outcome = Append(@, what)]

\* extractor.js:2057-2059, 1886-1888  catch (error) { console.warn(...) }
OnThrowAbort(j) == [j EXCEPT !.pc = "done", !.result = "error"]

OnThrow(j) == Continue(j, "throw")

\* The file the loop is at.
CurrentFile == job.allFiles[job.i]

\* extractor.js:2011, 1845  the url of the first downloadFile call for a file:
\* file.url in extractTicket, file.apiUrl || file.url in extractTicketViaAPI
FirstCallUrl(phase, file) ==
    IF phase = "api" /\ file.apiUrl # <<>> THEN file.apiUrl ELSE file.url

\* extractor.js:1855  the url of the second call, made when the first
\* returned null
RetryCallUrl(file) == file.url

\* downloadFile(url, ...) is called: the call is noted with its url
NoteCall(j, url) == [j EXCEPT !.calls = Append(@, url)]

\* extractor.js:1946-1952, 1831  the list the loop runs over
BeginLoop ==
    /\ job.pc = "start"
    /\ job' = [job EXCEPT !.pc = "loop",
                          !.allFiles = IF job.phase = "dom"
                                       THEN DedupeByUrl(job.discovered)
                                       ELSE job.discovered]
    /\ UNCHANGED <<streamVars, cas, shot, chk>>

\* extractor.js:2004-2008, 1837  continue
SkipFile ==
    /\ job.pc = "loop"
    /\ job.i <= Len(job.allFiles)
    /\ IF job.phase = "dom" THEN isUnnecessaryFile(CurrentFile)
       ELSE CurrentFile.url = <<>>
    /\ job' = Continue(job, "skipped")
    /\ UNCHANGED <<streamVars, cas, shot, chk>>

\* extractor.js:2011, 1844  downloadFile is called for the file
CallDownload ==
    /\ job.pc = "loop"
    /\ job.i <= Len(job.allFiles)
    /\ ~(IF job.phase = "dom" THEN isUnnecessaryFile(CurrentFile)
         ELSE CurrentFile.url = <<>>)
    /\ job' = AfterCall(NoteCall([job EXCEPT !.started = @ \cup {job.i},
                                             !.inFlight = @ \cup {job.i}],
                                  FirstCallUrl(job.phase, CurrentFile)), "await")
    /\ UNCHANGED <<streamVars, cas, shot, chk>>

\* extractor.js:2011-2036, 1844-1866  the awaited downloadFile settles: it
\* returned a result, returned null or rejected
DownloadSettles ==
    /\ job.pc \in {"await", "await2"}
    /\ LET j == [job EXCEPT !.inFlight = @ \ {job.i}]
       IN  \/ job' = OnThrow(j)
           \/ /\ job.phase = "api"
              /\ job.pc = "await"
              /\ job' = AfterCall(NoteCall([j EXCEPT !.inFlight = @ \cup {job.i}],
                                            RetryCallUrl(CurrentFile)), "await2")
           \/ /\ ~(job.phase = "api" /\ job.pc = "await")
              /\ job' = Continue(j, "null")
           \/ job' = [j EXCEPT !.pc = "rename",
                               !.filename = IF job.phase = "dom"
                                            THEN DomFilename(CurrentFile)
                                            ELSE ApiFilename(CurrentFile),
                               !.finalFilename = IF job.phase = "dom"
                                                 THEN DomFilename(CurrentFile)
                                                 ELSE ApiFilename(CurrentFile),
                               !.counter = 1]
    /\ UNCHANGED <<streamVars, cas, shot, chk>>

\* extractor.js:2038-2047, 1867-1876  one turn of the renaming loop
RenameStep ==
    /\ job.pc = "rename"
    /\ Collides(job.attachmentPaths, ArchivePath(job.finalFilename))
    /\ job' = [job EXCEPT !.finalFilename = Renamed(job.filename, job.counter),
                          !.counter = @ + 1]
    /\ UNCHANGED <<streamVars, cas, shot, chk>>

\* extractor.js:2049-2055, 1878-1884  the file is handed to the archive
ArchiveWrite ==
    /\ job.pc = "rename"
    /\ ~Collides(job.attachmentPaths, ArchivePath(job.finalFilename))
    /\ job' = Continue([job EXCEPT
                           !.archive = Append(@, job.finalFilename),
                           !.attachmentPaths =
                               Append(@, [id |-> CurrentFile.id,
                                          name |-> CurrentFile.name,
                                          path |-> ArchivePath(job.finalFilename)]),
                           !.downloadCount = @ + 1],
                       "result")
    /\ UNCHANGED <<streamVars, cas, shot, chk>>

\* extractor.js:2196-2209  the attachment records A|id|name|path of
\* ticket.tkt: one for every entry of ticketData.attachments with a path
RECURSIVE TktAttachments(_)
TktAttachments(paths) ==
    IF paths = <<>> THEN <<>>
    ELSE IF paths[1].path # <<>>
         THEN <<<<paths[1].id, paths[1].name, paths[1].path>>>>
              \o TktAttachments(Tail(paths))
         ELSE TktAttachments(Tail(paths))

\* extractor.js:2102-2106, 1909-1913  the object the job returns on success;
\* attachments: the number named in its message
Returned(j) == [success |-> TRUE, attachments |-> j.downloadCount, frameRole |-> "main"]

\* extractor.js:2107-2109
ReturnedError == [error |-> "message", frameRole |-> "main"]

\* The loop is over: ticketData.attachments = attachmentPaths is written to
\* ticket.tkt (extractor.js:2062-2082, 1891-1895).
LoopExit ==
    /\ job.pc = "loop"
    /\ job.i > Len(job.allFiles)
    /\ job' = [job EXCEPT !.pc = "zip", !.exported = TktAttachments(job.attachmentPaths)]
    /\ UNCHANGED <<streamVars, cas, shot, chk>>

\* extractor.js:2093-2100, 1900-1907  a.click(): the download of the archive
\* is triggered
TriggerDownload(j) == [j EXCEPT !.triggered = @ + 1]

\* extractor.js:1914-1917, 1925-1933  catch (error) { return null } in
\* extractTicketViaAPI: apiResult is null and extractTicket goes on with the
\* DOM extraction.  Nothing between a.click() and the return throws, so the
\* catch is entered before the download is triggered.
ApiReturnsNullAfterClick(j) ==
    [JobStart("dom", j.discovered) EXCEPT !.triggered = j.triggered + 1,
                                          !.apiResult = "null"]

ApiReturnsNull(j) ==
    [JobStart("dom", j.discovered) EXCEPT !.triggered = j.triggered,
                                          !.apiResult = "null"]

\* extractor.js:2081-2109, 1894-1917  the archive is generated and its
\* download triggered, or generating it throws: extractTicketViaAPI then
\* returns null and extractTicket starts over from the DOM
ZipSettles ==
    /\ job.pc = "zip"
    /\ \/ job' = [TriggerDownload(job) EXCEPT
                      !.pc = "done", !.result = "success",
                      !.returned = Returned(job),
                      !.apiResult = IF job.phase = "api" THEN "result" ELSE @]
       \/ /\ job.phase = "dom"
          /\ job' = [job EXCEPT !.pc = "done", !.result = "error", !.zipThrew = TRUE,
                                !.returned = ReturnedError]
       \/ /\ job.phase = "api"
          /\ job' = ApiReturnsNull(job)
    /\ UNCHANGED <<streamVars, cas, shot, chk>>

----------------------------------------------------------------------------
(* Properties of the coordinator *)

\* C7: downloads run strictly one at a time: the cascade of a resource is
\* started only after the cascades of all earlier resources are finalized,
\* and at no time are two cascades in flight.
C7_OneAtATime ==
    /\ job.pc # "idle" => Cardinality(job.inFlight) <= 1
    /\ job.pc # "idle" =>
          \A i \in job.started : \A k \in job.started : k < i => k \notin job.inFlight

\* The cascade of the third resource is in flight after the first returned
\* null and the second was downloaded.
C7_Witness ==
    /\ job.pc = "await"
    /\ job.inFlight = {3}
    /\ job.started = {1, 2, 3}
    /\ job.outcome = <<"null", "result">>

Attempted(i) == job.outcome[i] # "skipped"

RECURSIVE Downloaded(_)
Downloaded(i) ==
    IF i = 0 THEN <<>>
    ELSE IF job.outcome[i] = "result"
         THEN Append(Downloaded(i - 1), job.allFiles[i].id)
         ELSE Downloaded(i - 1)

WithSuffix(name, n) ==
    IF \E k \in 1..Len(name) : name[k] = "."
    THEN LET d == CHOOSE k \in 1..Len(name) :
                      name[k] = "." /\ \A m \in (k + 1)..Len(name) : name[m] # "."
         IN  SubSeq(name, 1, d - 1) \o <<"_">> \o Decimal(n) \o SubSeq(name, d, Len(name))
    ELSE name \o <<"_">> \o Decimal(n)

\* C9: the archive paths recorded are pairwise distinct; a colliding name gets
\* the suffix _n, n = 1, 2, ..., before its extension (at its end when it has
\* none), and the renaming loop ends: it takes no more turns than there are
\* recorded paths.
C9_PathsDistinct ==
    job.pc # "idle" =>
        /\ \A a, b \in 1..Len(job.attachmentPaths) :
              a # b => job.attachmentPaths[a].path # job.attachmentPaths[b].path
        /\ job.pc = "rename" =>
              /\ job.counter <= Len(job.attachmentPaths) + 1
              /\ IF job.counter = 1 THEN job.finalFilename = job.filename
                 ELSE job.finalFilename = WithSuffix(job.filename, job.counter - 1)

\* A third file of the same name was recorded under the suffix _2, the
\* suffix _1 being taken.
C9_Witness ==
    /\ Len(job.attachmentPaths) = 3
    /\ job.attachmentPaths[3].path = ArchivePath(<<"a", "_", "2", ".", "t">>)
    /\ job.attachmentPaths[3].name = <<"a", ".", "t">>

\* C10: every file name handed to the archive is free of path separators and
\* reserved characters.
C10_NamesClean ==
    job.pc # "idle" =>
        \A k \in 1..Len(job.archive) :
            \A m \in 1..Len(job.archive[k]) : job.archive[k][m] \notin Reserved

Failed == {i \in 1..Len(job.outcome) : job.outcome[i] \in {"null", "throw"}}

\* C20: the result of a job that succeeded although some download failed
\* carries the ordered list of {id, name, archivePath} of the downloaded
\* files (in the exported record) and the number of them, together with a
\* count of the resources whose download failed.
C20_ResultReportsFailures ==
    (job.pc = "done" /\ job.result = "success" /\ Failed # {}) =>
        /\ job.exported =
              [k \in 1..Len(job.attachmentPaths) |->
                  <<job.attachmentPaths[k].id, job.attachmentPaths[k].name,
                    job.attachmentPaths[k].path>>]
        /\ job.returned.attachments = Len(Downloaded(Len(job.allFiles)))
        /\ "failed" \in DOMAIN job.returned
        /\ job.returned.failed = Cardinality(Failed)

\* extractor.js:1994-1998, 1826-1828  the folders of the archive, each the
\* sequence of its path segments
RawFolder == <<"KEY-1", "raw">>

AttachmentsFolder == RawFolder \o <<"attachments">>

\* folder.file(name, content): an entry of the archive
ZipFile(folder, name) == [folder |-> folder, name |-> name]

\* The file entries of the archive of a job: the attachments handed to
\* attachmentsFolder (extractor.js:2049, 1878) and, once the loop is over,
\* the ticket file written to rawFolder (extractor.js:2082, 1895)
ZipFiles(j) ==
    {ZipFile(AttachmentsFolder, j.archive[k]) : k \in 1..Len(j.archive)}
    \cup (IF j.pc \in {"zip", "done"}
          THEN {ZipFile(RawFolder, <<"ticket.tkt">>)}
          ELSE {})

\* C23: the archive of a job that succeeded contains an entry named
\* ticket.json that holds the ticket data, and a folder attachments/ with
\* every downloaded attachment (stated for the jobs that downloaded one).
C23_ArchiveLayout ==
    (job.pc = "done" /\ job.result = "success" /\ job.archive # <<>>) =>
        /\ \E e \in ZipFiles(job) : e.name = <<"ticket.json">>
        /\ Cardinality({e \in ZipFiles(job) :
                            e.folder[Len(e.folder)] = "attachments"})
              = Len(Downloaded(Len(job.allFiles)))

\* C39: a job triggers the download of at most one archive and returns one
\* result: the DOM extraction runs only if the API extraction returned null,
\* and the API extraction returns null only where it has not triggered the
\* download.
C39_OneArchiveOneResult ==
    job.pc # "idle" =>
        /\ job.triggered <= 1
        /\ job.pc # "done" =>
              /\ job.triggered = 0
              /\ job.returned = [frameRole |-> "none"]
        /\ job.pc = "done" =>
              /\ job.returned.frameRole = "main"
              /\ job.result = "success" <=> job.triggered = 1
              /\ job.result = "success" <=> "success" \in DOMAIN job.returned
        /\ job.apiResult = "result" => (job.phase = "api" /\ job.pc = "done")
        /\ (job.phase = "dom" /\ job.apiResult # "none") => job.apiResult = "null"

\* The API extraction downloaded an attachment, failed to generate its
\* archive and returned null; the DOM extraction then ran and triggered the
\* one download of the job.
C39_Witness ==
    /\ job.pc = "done"
    /\ job.phase = "dom"
    /\ job.apiResult = "null"
    /\ job.result = "success"
    /\ job.triggered = 1
    /\ job.archive # <<>>

----------------------------------------------------------------------------
(* Specifications *)

JobIdle == [pc |-> "idle"]

BatchInit ==
    /\ req = [s \in Sessions |-> ReqIdle]
    /\ port = [s \in Sessions |-> PortIdle]
    /\ fet = [s \in Sessions |-> FetIdle]
    /\ posted = [s \in Sessions |-> <<>>]
    /\ foreignSeen = {}
    /\ cas = CasIdle
    /\ job \in {JobStart(phase, d) : phase \in {"api", "dom"}, d \in SeqsUpTo(Files, MaxFiles)}
    /\ shot = ShotIdle
    /\ chk = ChkIdle

BatchNext ==
    \/ BeginLoop
    \/ SkipFile
    \/ CallDownload
    \/ DownloadSettles
    \/ RenameStep
    \/ ArchiveWrite
    \/ LoopExit
    \/ ZipSettles

SpecBatch == BatchInit /\ [][BatchNext]_vars

StreamInit ==
    /\ req = [s \in Sessions |-> ReqIdle]
    /\ port = [s \in Sessions |-> PortIdle]
    /\ fet = [s \in Sessions |-> FetIdle]
    /\ posted = [s \in Sessions |-> <<>>]
    /\ foreignSeen = {}
    /\ cas = CasIdle
    /\ job = JobIdle
    /\ shot = ShotIdle
    /\ chk = ChkIdle

StreamNext ==
    \/ \E s \in Sessions : StrayConnect(s)
    \/ \E s \in Sessions : ReqStart(s)
    \/ \E s \in Sessions : ReqOnMessage(s)
    \/ \E s \in Sessions : ReqOnForeign(s)
    \/ \E s \in Sessions : ReqTimeout(s)
    \/ \E s \in Sessions : ReqOnDisconnect(s)
    \/ \E s \in Sessions : FetOnMessage(s)
    \/ \E s \in Sessions : FetFetchSettle(s)
    \/ \E s \in Sessions : FetReadSettle(s)
    \/ \E s \in Sessions : FetOnDisconnect(s)
    \/ WorkerStopped

SpecStream == StreamInit /\ [][StreamNext]_vars

\* The streaming protocol with timers that fire: the callback of a timer
\* that stays armed is eventually run (extractor.js:1586-1589).  Nothing is
\* assumed of the Fetcher, the network or the port.
SpecStreamTimers ==
    StreamInit /\ [][StreamNext]_vars /\ \A s \in Sessions : WF_vars(ReqTimeout(s))

\* Two streaming downloads of one job, made one after the other
TwoSessions == {1, 2}

PortsInit ==
    /\ req = [s \in TwoSessions |-> ReqIdle]
    /\ port = [s \in TwoSessions |-> PortIdle]
    /\ fet = [s \in TwoSessions |-> FetIdle]
    /\ posted = [s \in TwoSessions |-> <<>>]
    /\ foreignSeen = {}
    /\ cas = CasIdle
    /\ job = JobIdle
    /\ shot = ShotIdle
    /\ chk = ChkIdle

PortsNext ==
    \/ \E s \in TwoSessions : ReqStart(s)
    \/ \E s \in TwoSessions : ReqOnMessage(s)
    \/ \E s \in TwoSessions : ReqOnForeign(s)
    \/ \E s \in TwoSessions : ReqTimeout(s)
    \/ \E s \in TwoSessions : ReqOnDisconnect(s)
    \/ \E s \in TwoSessions : FetOnMessage(s)
    \/ \E s \in TwoSessions : FetFetchSettle(s)
    \/ \E s \in TwoSessions : FetReadSettle(s)
    \/ \E s \in TwoSessions : FetOnDisconnect(s)
    \/ WorkerStopped

SpecPorts == PortsInit /\ [][PortsNext]_vars

OneShotInit ==
    /\ req = [s \in Sessions |-> ReqIdle]
    /\ port = [s \in Sessions |-> PortIdle]
    /\ fet = [s \in Sessions |-> FetIdle]
    /\ posted = [s \in Sessions |-> <<>>]
    /\ foreignSeen = {}
    /\ cas = CasIdle
    /\ job = JobIdle
    /\ shot \in {[ShotIdle EXCEPT !.pc = "called", !.url = u, !.headers = h] :
                    u \in {"/rest/api/3/attachment/content/1", "/secure/attachment/1/a.pdf"},
                    h \in BOOLEAN}
    /\ chk = ChkIdle

OneShotNext ==
    \/ ShotSend
    \/ ShotFetchSettles
    \/ ShotBlobSettles
    \/ ShotReaderEnds
    \/ ShotCallback
    \/ ShotWorkerStopped

SpecOneShot == OneShotInit /\ [][OneShotNext]_vars

ChecklistInit ==
    /\ req = [s \in Sessions |-> ReqIdle]
    /\ port = [s \in Sessions |-> PortIdle]
    /\ fet = [s \in Sessions |-> FetIdle]
    /\ posted = [s \in Sessions |-> <<>>]
    /\ foreignSeen = {}
    /\ cas = CasIdle
    /\ job = JobIdle
    /\ shot = ShotIdle
    /\ chk \in {[ChkIdle EXCEPT !.pc = "called", !.retries = r, !.hasWindow = w] :
                   r \in 0..MaxRetries, w \in BOOLEAN}

ChecklistNext ==
    \/ ChkStart
    \/ ChkTimer
    \/ FrameAnswers
    \/ OtherWindowPosts
    \/ ChkOnMessage

SpecChecklist == ChecklistInit /\ [][ChecklistNext]_vars

CascadeInit ==
    /\ req = [s \in Sessions |-> ReqIdle]
    /\ port = [s \in Sessions |-> PortIdle]
    /\ fet = [s \in Sessions |-> FetIdle]
    /\ posted = [s \in Sessions |-> <<>>]
    /\ foreignSeen = {}
    /\ cas \in {[CasIdle EXCEPT !.pc = "called", !.in = i] : i \in CascadeInputs}
    /\ job = JobIdle
    /\ shot = ShotIdle
    /\ chk = ChkIdle

CascadeNext ==
    \/ CallDownloadFile
    \/ BlobUrlSettles
    \/ BgBlobSettles
    \/ XhrSettles
    \/ Fetch1Settles
    \/ Fetch2Settles
    \/ Fetch3Settles
    \/ BlobSettles
    \/ StreamSettles

SpecCascade == CascadeInit /\ [][CascadeNext]_vars

====
